---- MODULE Spec2Model ----
(***************************************************************************)
(* Model of the ping-pong ECS runtime: the EntityManager (entity store),   *)
(* the SystemManager (scheduler), the boundary phase of the                *)
(* CollisionSystem and the ScoreComponent / ScoreSystem state machine.     *)
(*                                                                         *)
(* Lengths are integers counting tenths of a pixel, velocities tenths of   *)
(* a pixel per second, factors tenths; wall-clock time counts halves of a   *)
(* second.                                                                 *)
(***************************************************************************)
EXTENDS Integers, Sequences, FiniteSets, TLC

(***************************************************************************)
(* Bounds of the model.                                                    *)
(***************************************************************************)
MaxIds == 3

MaxSchedIds == 1

MaxRuns == 3

MaxTime == 5

\* the points scored in the long game of the event history
MaxScores == 12

VARIABLES
    next_entity_id,        \* EntityManager._next_entity_id
    entities,              \* EntityManager._entities
    components,            \* EntityManager._components: id -> (kind -> component)
    component_to_entities, \* EntityManager._component_to_entities: kind -> ids
    entities_to_destroy,   \* EntityManager._entities_to_destroy
    systems,               \* SystemManager.systems
    system_lookup,         \* SystemManager.system_lookup (its keys)
    priority,              \* System.priority of the registered instance of each type
    enabled,               \* System.enabled of the registered instance of each type
    frame_pc,              \* position of update_all_systems in its loop; 0 = no frame running
    frame_log,             \* what the running or just ended frame did, in order
    score_system,          \* the fields of the ScoreSystem
    config,                \* the GameConfig the ScoreSystem reads
    now,                   \* time.time()
    scored_at,             \* when _check_scoring_conditions last scored for a ball
                           \* that has stayed out since, with no reset ({} if never)
    game,                  \* the fields of the Game: paused, ball
    last                   \* the operation performed by the last step

storeVars == <<next_entity_id, entities, components, component_to_entities,
               entities_to_destroy>>

schedVars == <<systems, system_lookup, priority, enabled, frame_pc, frame_log>>

scoreVars == <<score_system, config, now, scored_at, game>>

vars == <<storeVars, schedVars, scoreVars, last>>

(***************************************************************************)
(* Entity store: EntityManager.                                            *)
(***************************************************************************)
Kinds == {"Position", "Velocity", "Render", "Collision", "Input", "Score"}

\* the kinds and the component instances the store specification inserts
StoreKinds == {"Position", "Velocity"}

Values(k) == IF k = "Position" THEN {"p1"} ELSE {"v1"}

None == "None"

NoComponents == [k \in {} |-> None]

\* the dictionary d with key k bound to v (d[k] = v in Python)
DictSet(d, k, v) == [x \in (DOMAIN d) \cup {k} |-> IF x = k THEN v ELSE d[x]]

\* the dictionary d without key k (del d[k])
DictDel(d, k) == [x \in (DOMAIN d) \ {k} |-> d[x]]

\* _components is a defaultdict(dict): an id without an entry reads as {}
CompsOf(comps, e) == IF e \in DOMAIN comps THEN comps[e] ELSE NoComponents

StoreInit ==
    /\ next_entity_id = 1
    /\ entities = {}
    /\ components = NoComponents
    /\ component_to_entities = [k \in Kinds |-> {}]
    /\ entities_to_destroy = {}

\* the fields of the store after create_entity
CreatedEntities == entities \cup {next_entity_id}

create_entity ==
    /\ next_entity_id <= MaxIds
    /\ next_entity_id' = next_entity_id + 1
    /\ entities' = CreatedEntities
    /\ UNCHANGED <<components, component_to_entities, entities_to_destroy>>
    /\ UNCHANGED <<schedVars, scoreVars>>
    /\ last' = [op |-> "create_entity", made |-> last.made \cup {next_entity_id}, ids |-> {}]

\* the pending set after destroy_entity(e)
Destroyed(pending, ents, e) == IF e \in ents THEN pending \cup {e} ELSE pending

destroy_entity(e) ==
    /\ entities_to_destroy' = Destroyed(entities_to_destroy, entities, e)
    /\ UNCHANGED <<next_entity_id, entities, components, component_to_entities>>
    /\ UNCHANGED <<schedVars, scoreVars>>
    /\ last' = [op |-> "destroy_entity", made |-> last.made, ids |-> {}]

\* mutant: a kind the entity already holds keeps its component
AddedComponents_KeepOld(comps, e, k, v) ==
    IF k \in DOMAIN CompsOf(comps, e) THEN comps
    ELSE DictSet(comps, e, DictSet(CompsOf(comps, e), k, v))

\* the store's tables after add_component(e, component v of kind k) succeeded
AddedComponents(comps, e, k, v) == DictSet(comps, e, DictSet(CompsOf(comps, e), k, v))

AddedIndex(index, e, k) == [index EXCEPT ![k] = @ \cup {e}]

\* mutant: add_component does not test the id
Exists_Any(ents, e) == TRUE

\* entity_id in self._entities
Exists(ents, e) == e \in ents

add_component(e, k, v) ==
    /\ IF ~Exists(entities, e)
       THEN /\ UNCHANGED <<components, component_to_entities>>
            /\ last' = [op |-> "add_component_error", made |-> last.made, ids |-> {}, args |-> <<e>>]
       ELSE /\ components' = AddedComponents(components, e, k, v)
            /\ component_to_entities' = AddedIndex(component_to_entities, e, k)
            /\ last' = [op |-> "add_component", made |-> last.made, ids |-> {}, args |-> <<e, k, v>>,
                        old |-> IF k \in DOMAIN CompsOf(components, e)
                                THEN components[e][k] ELSE None]
    /\ UNCHANGED <<next_entity_id, entities, entities_to_destroy>>
    /\ UNCHANGED <<schedVars, scoreVars>>

\* the tables after remove_component(e, k); the membership test on the
\* defaultdict leaves an (empty) entry for an active id that had none
RemovedComponents(comps, ents, e, k) ==
    IF e \notin ents THEN comps
    ELSE IF k \in DOMAIN CompsOf(comps, e)
         THEN DictSet(comps, e, DictDel(comps[e], k))
         ELSE DictSet(comps, e, CompsOf(comps, e))

\* mutant: remove_component forgets the reverse index
RemovedIndex_Stale(comps, index, ents, e, k) == index

RemovedIndex(comps, index, ents, e, k) ==
    IF e \in ents /\ k \in DOMAIN CompsOf(comps, e)
    THEN [index EXCEPT ![k] = @ \ {e}]
    ELSE index

remove_component(e, k) ==
    /\ components' = RemovedComponents(components, entities, e, k)
    /\ component_to_entities' =
           RemovedIndex(components, component_to_entities, entities, e, k)
    /\ UNCHANGED <<next_entity_id, entities, entities_to_destroy>>
    /\ UNCHANGED <<schedVars, scoreVars>>
    /\ last' = [op |-> "remove_component", made |-> last.made, ids |-> {}]

has_component(e, k) ==
    IF e \notin entities THEN FALSE ELSE k \in DOMAIN CompsOf(components, e)

get_component(e, k) ==
    IF e \notin entities THEN None
    ELSE IF k \in DOMAIN CompsOf(components, e) THEN components[e][k] ELSE None

\* intersection of the reverse indices of kinds[i..], starting from acc
RECURSIVE IntersectFrom(_, _, _, _)
IntersectFrom(index, acc, kinds, i) ==
    IF i > Len(kinds) THEN acc
    ELSE IntersectFrom(index, acc \cap index[kinds[i]], kinds, i + 1)

\* the ids in the list the query returns, for the list kinds of kinds
QueryOf(ents, index, pending, kinds) ==
    IF Len(kinds) = 0 THEN ents
    ELSE {e \in IntersectFrom(index, index[kinds[1]], kinds, 2) : e \notin pending}

get_entities_with_components(kinds) ==
    QueryOf(entities, component_to_entities, entities_to_destroy, kinds)

get_all_entities == {e \in entities : e \notin entities_to_destroy}

\* the loop of cleanup_destroyed_entities over the pending ids: every
\* component of a pending id that has a table entry goes through
\* remove_component, then the entry and the id's membership are dropped
CleanedComponents(comps, pending) ==
    [e \in (DOMAIN comps) \ pending |-> comps[e]]

\* mutant: the cleanup leaves the reverse index as it is
CleanedIndex_Stale(comps, index, ents, pending) == index

CleanedIndex(comps, index, ents, pending) ==
    [k \in Kinds |->
        index[k] \ {e \in pending : e \in DOMAIN comps /\ e \in ents
                                     /\ k \in DOMAIN comps[e]}]

\* mutant: the cleanup forgets to drop the ids from the entity set
CleanedEntities_Keep(ents, pending) == ents

CleanedEntities(ents, pending) == ents \ pending

\* mutant: the cleanup leaves the pending set as it is
ClearedPending_Keep(pending) == pending

\* self._entities_to_destroy.clear()
ClearedPending(pending) == {}

cleanup_destroyed_entities ==
    /\ components' = CleanedComponents(components, entities_to_destroy)
    /\ component_to_entities' =
           CleanedIndex(components, component_to_entities, entities,
                        entities_to_destroy)
    /\ entities' = CleanedEntities(entities, entities_to_destroy)
    /\ entities_to_destroy' = ClearedPending(entities_to_destroy)
    /\ UNCHANGED next_entity_id
    /\ UNCHANGED <<schedVars, scoreVars>>
    /\ last' = [op |-> "cleanup", made |-> last.made,
                ids |-> {e \in entities_to_destroy : CompsOf(components, e) # NoComponents},
                pending |-> entities_to_destroy]

clear_all ==
    /\ entities' = {}
    /\ components' = NoComponents
    /\ component_to_entities' = [k \in Kinds |-> {}]
    /\ entities_to_destroy' = {}
    /\ next_entity_id' = 1
    /\ UNCHANGED <<schedVars, scoreVars>>
    /\ last' = [op |-> "clear_all", made |-> last.made, ids |-> {}]

NoOp == [op |-> "init", made |-> {}, ids |-> {}]

(***************************************************************************)
(* Scheduler: SystemManager.                                               *)
(***************************************************************************)
SysTypes == {"InputSystem", "MovementSystem", "CollisionSystem", "ScoreSystem",
             "RenderSystem"}

\* the priority each system class gives itself in __init__
InputPriority == 5

MovementPriority == 10

CollisionPriority == 20

ScorePriority == 50

RenderPriority == 100

ClassPriority(t) ==
    CASE t = "InputSystem" -> InputPriority
      [] t = "MovementSystem" -> MovementPriority
      [] t = "CollisionSystem" -> CollisionPriority
      [] t = "ScoreSystem" -> ScorePriority
      [] t = "RenderSystem" -> RenderPriority

\* the system types and the priority values set_system_priority is called
\* with (15 lies between MovementPriority and CollisionPriority)
PriorityTargets == {"InputSystem", "ScoreSystem", "RenderSystem"}

PriorityArgs == {15}

\* get_required_components of each system class, listed
get_required_components(t) ==
    CASE t = "InputSystem" -> <<"Input">>
      [] t = "MovementSystem" -> <<"Position", "Velocity">>
      [] t = "CollisionSystem" -> <<"Position", "Collision">>
      [] t = "ScoreSystem" -> <<"Score">>
      [] t = "RenderSystem" -> <<"Position", "Render">>

\* xs with x inserted behind the last element whose key is <= the key of x
RECURSIVE InsertByPriority(_, _, _)
InsertByPriority(xs, x, prio) ==
    IF xs = <<>> THEN <<x>>
    ELSE IF prio[xs[Len(xs)]] <= prio[x] THEN Append(xs, x)
    ELSE Append(InsertByPriority(SubSeq(xs, 1, Len(xs) - 1), x, prio), xs[Len(xs)])

\* list.sort(key=priority): ascending and stable
RECURSIVE SortedFrom(_, _, _, _)
SortedFrom(acc, xs, i, prio) ==
    IF i > Len(xs) THEN acc
    ELSE SortedFrom(InsertByPriority(acc, xs[i], prio), xs, i + 1, prio)

sort_systems_by_priority(xs, prio) == SortedFrom(<<>>, xs, 1, prio)

\* the list without its first occurrence of x (list.remove)
RECURSIVE ListRemove(_, _)
ListRemove(xs, x) ==
    IF xs = <<>> THEN <<>>
    ELSE IF Head(xs) = x THEN Tail(xs)
    ELSE <<Head(xs)>> \o ListRemove(Tail(xs), x)

SchedIdle ==
    /\ systems = <<>>
    /\ system_lookup = {}
    /\ priority = NoComponents
    /\ enabled = NoComponents
    /\ frame_pc = 0
    /\ frame_log = <<>>

\* the system list after register_system appended t and sorted
RegisteredSystems(xs, t, prio) == sort_systems_by_priority(Append(xs, t), prio)

\* mutant: register_system does not look the type up
IsRegistered_Never(lookup, t) == FALSE

\* type(system) in self.system_lookup
IsRegistered(lookup, t) == t \in lookup

\* register_system of an instance of type t whose attributes are p and en
register_system(t, p, en) ==
    /\ frame_pc = 0
    /\ IF ~IsRegistered(system_lookup, t)
       THEN /\ priority' = DictSet(priority, t, p)
            /\ enabled' = DictSet(enabled, t, en)
            /\ systems' = RegisteredSystems(systems, t, priority')
            /\ system_lookup' = system_lookup \cup {t}
       ELSE UNCHANGED <<systems, system_lookup, priority, enabled>>
    /\ frame_log' = <<>>
    /\ UNCHANGED frame_pc
    /\ UNCHANGED <<storeVars, scoreVars>>
    /\ last' = [op |-> "register_system", ids |-> {}, args |-> <<t, en>>]

unregister_system(t) ==
    /\ frame_pc = 0
    /\ IF t \in system_lookup
       THEN /\ systems' = ListRemove(systems, t)
            /\ system_lookup' = system_lookup \ {t}
            /\ priority' = DictDel(priority, t)
            /\ enabled' = DictDel(enabled, t)
       ELSE UNCHANGED <<systems, system_lookup, priority, enabled>>
    /\ frame_log' = <<>>
    /\ UNCHANGED frame_pc
    /\ UNCHANGED <<storeVars, scoreVars>>
    /\ last' = [op |-> "unregister_system", ids |-> {}]

\* enable_system (en = TRUE) and disable_system (en = FALSE)
set_system_enabled(t, en) ==
    /\ frame_pc = 0
    /\ enabled' = IF t \in system_lookup THEN DictSet(enabled, t, en) ELSE enabled
    /\ frame_log' = <<>>
    /\ UNCHANGED <<systems, system_lookup, priority, frame_pc>>
    /\ UNCHANGED <<storeVars, scoreVars>>
    /\ last' = [op |-> IF en THEN "enable_system" ELSE "disable_system", ids |-> {}]

\* mutant: set_system_priority does not sort again
Reprioritised_NoSort(xs, prio) == xs

\* the system list after set_system_priority changed a priority to prio
Reprioritised(xs, prio) == sort_systems_by_priority(xs, prio)

set_system_priority(t, p) ==
    /\ frame_pc = 0
    /\ IF t \in system_lookup
       THEN /\ priority' = DictSet(priority, t, p)
            /\ systems' = Reprioritised(systems, priority')
       ELSE UNCHANGED <<systems, priority>>
    /\ frame_log' = <<>>
    /\ UNCHANGED <<system_lookup, enabled, frame_pc>>
    /\ UNCHANGED <<storeVars, scoreVars>>
    /\ last' = [op |-> "set_system_priority", ids |-> {}]

\* update_all_systems, entered: the loop starts at the head of the list
update_all_systems_begin ==
    /\ frame_pc = 0
    /\ frame_pc' = 1
    /\ frame_log' = <<>>
    /\ UNCHANGED <<systems, system_lookup, priority, enabled>>
    /\ UNCHANGED <<storeVars, scoreVars>>
    /\ last' = [op |-> "frame_begin", ids |-> {}]

\* what the update of a system does to the store: nothing, or it marks an
\* entity for destruction, or it raises
UpdateEffects == {"none", "destroy", "raise"}

\* mutant: the loop catches what an update raises and goes on
NextPc_Caught(pc, raised) == pc + 1

\* mutant: the loop is left (break) where it should go on (continue)
NextPc_Break(pc, raised) == IF raised THEN 0 ELSE Len(systems) + 1

\* mutant: a raising update still leads to the end-of-frame cleanup (finally)
NextPc_Finally(pc, raised) == IF raised THEN Len(systems) + 1 ELSE pc + 1

\* the position of the loop after the iteration at position pc
NextPc(pc, raised) == IF raised THEN 0 ELSE pc + 1

\* one iteration of the loop of update_all_systems
update_system(effect, e) ==
    /\ frame_pc \in 1..Len(systems)
    /\ LET t == systems[frame_pc]
           ents == get_entities_with_components(get_required_components(t))
       IN IF ~enabled[t]
          THEN /\ effect = "none"
               /\ frame_pc' = NextPc(frame_pc, FALSE)
               /\ UNCHANGED <<frame_log, entities_to_destroy>>
               /\ last' = [op |-> "skip_system", ids |-> {}]
          ELSE /\ frame_log' = Append(frame_log, [sys |-> t, ents |-> ents])
               /\ frame_pc' = NextPc(frame_pc, effect = "raise")
               /\ entities_to_destroy' =
                      IF effect = "destroy"
                      THEN Destroyed(entities_to_destroy, entities, e)
                      ELSE entities_to_destroy
               /\ last' = [op |-> IF effect = "raise" THEN "frame_raised"
                                  ELSE "update_system", ids |-> {}]
    /\ UNCHANGED <<systems, system_lookup, priority, enabled>>
    /\ UNCHANGED <<next_entity_id, entities, components, component_to_entities>>
    /\ UNCHANGED scoreVars

CleanupMark == [sys |-> "cleanup", ents |-> {}]

\* the log of the frame after the loop has ended
EndedLog(log) == Append(log, CleanupMark)

\* update_all_systems, after its loop: the end-of-frame cleanup
update_all_systems_end ==
    /\ frame_pc = Len(systems) + 1
    /\ components' = CleanedComponents(components, entities_to_destroy)
    /\ component_to_entities' =
           CleanedIndex(components, component_to_entities, entities,
                        entities_to_destroy)
    /\ entities' = CleanedEntities(entities, entities_to_destroy)
    /\ entities_to_destroy' = {}
    /\ frame_log' = EndedLog(frame_log)
    /\ frame_pc' = 0
    /\ UNCHANGED <<next_entity_id, systems, system_lookup, priority, enabled>>
    /\ UNCHANGED scoreVars
    /\ last' = [op |-> "frame_end", ids |-> entities_to_destroy]

\* the host creates an entity between two frames
host_create_entity ==
    /\ frame_pc = 0
    /\ next_entity_id <= MaxSchedIds
    /\ next_entity_id' = next_entity_id + 1
    /\ entities' = CreatedEntities
    /\ UNCHANGED <<components, component_to_entities, entities_to_destroy>>
    /\ frame_log' = <<>>
    /\ UNCHANGED <<systems, system_lookup, priority, enabled, frame_pc>>
    /\ UNCHANGED scoreVars
    /\ last' = [op |-> "create_entity", ids |-> {}]

SchedNext ==
    \/ \E t \in SysTypes, en \in BOOLEAN : register_system(t, ClassPriority(t), en)
    \/ \E t \in SysTypes : unregister_system(t)
    \/ \E t \in SysTypes, en \in BOOLEAN : set_system_enabled(t, en)
    \/ \E t \in PriorityTargets, p \in PriorityArgs : set_system_priority(t, p)
    \/ update_all_systems_begin
    \/ \E effect \in UpdateEffects, e \in 1..MaxSchedIds : update_system(effect, e)
    \/ update_all_systems_end
    \/ host_create_entity

(***************************************************************************)
(* ScoreSystem and GameConfig at construction.                             *)
(***************************************************************************)
\* None where a player number is expected (winner, last_scorer)
NoPlayer == 0

\* None where an entity id is expected; entity ids start at 1
NoEntity == 0

WINNING_SCORE == 10

\* n seconds of wall-clock time
Seconds(n) == 2 * n

score_cooldown == Seconds(1)

\* ScoreSystem.__init__ and the default GameConfig; the clock counts from the
\* epoch, so it is at least one cooldown past 0
ScoreIdle ==
    /\ score_system = [score_manager_entity |-> NoEntity, ball_entity |-> NoEntity,
                       on_score_callbacks |-> <<>>, on_game_over_callbacks |-> <<>>,
                       last_score_time |-> 0]
    /\ config = [WINNING_SCORE |-> WINNING_SCORE]
    /\ now = score_cooldown
    /\ scored_at = {}
    /\ game = [paused |-> FALSE, ball |-> NoEntity]

(***************************************************************************)
(* Component data and the boundary phase of the CollisionSystem.           *)
(* Position {x, y}, Velocity {dx, dy, max_speed} and Collision {width,     *)
(* height, collision_type, bounce_factor} are records; lengths and         *)
(* velocities count tenths of a pixel (per second), factors tenths.        *)
(***************************************************************************)
SCREEN_WIDTH == 800

SCREEN_HEIGHT == 600

\* n pixels, in tenths of a pixel
Px(n) == n * 10

\* a / b for b > 0, rounded to the nearest integer
RoundDiv(a, b) ==
    IF a >= 0 THEN (2 * a + b) \div (2 * b) ELSE -((2 * (-a) + b) \div (2 * b))

\* the product of a value and a factor given in tenths
Mul(v, f) == RoundDiv(v * f, 10)

\* the integer nearest to the square root of n, searched in lo..hi
RECURSIVE SqrtIn(_, _, _)
SqrtIn(n, lo, hi) ==
    IF lo >= hi THEN lo
    ELSE LET mid == (lo + hi + 1) \div 2
         IN IF mid * mid - mid < n THEN SqrtIn(n, mid, hi) ELSE SqrtIn(n, lo, mid - 1)

Sqrt(n) == SqrtIn(n, 0, 46340)

reflect_x(v) == [v EXCEPT !.dx = -v.dx]

reflect_y(v) == [v EXCEPT !.dy = -v.dy]

get_speed(v) == Sqrt(v.dx * v.dx + v.dy * v.dy)

\* mutant: the velocity is never limited
clamp_to_max_speed_Off(v) == v

clamp_to_max_speed(v) ==
    IF v.max_speed > 0 /\ v.dx * v.dx + v.dy * v.dy > v.max_speed * v.max_speed
    THEN [v EXCEPT !.dx = RoundDiv(v.dx * v.max_speed, get_speed(v)),
                   !.dy = RoundDiv(v.dy * v.max_speed, get_speed(v))]
    ELSE v

scale_velocity(v, factor) ==
    clamp_to_max_speed([v EXCEPT !.dx = Mul(v.dx, factor), !.dy = Mul(v.dy, factor)])

\* (left, top, right, bottom) of a collision box centred at (x, y)
get_collision_bounds(col, x, y) ==
    [left |-> x - col.width \div 2, top |-> y - col.height \div 2,
     right |-> x + col.width \div 2, bottom |-> y + col.height \div 2]

\* the velocity after a bounce: reflected on one axis, then scaled
\* mutant: the horizontal bounce scales the velocity but does not reflect it
BouncedX_NoReflect(v, col) == scale_velocity(v, col.bounce_factor)

BouncedX(v, col) == scale_velocity(reflect_x(v), col.bounce_factor)

\* mutant: the vertical bounce scales the velocity but does not reflect it
BouncedY_NoReflect(v, col) == scale_velocity(v, col.bounce_factor)

\* mutant: the vertical bounce reflects the velocity but does not scale it
BouncedY_Unscaled(v, col) == reflect_y(v)

BouncedY(v, col) == scale_velocity(reflect_y(v), col.bounce_factor)

\* mutant: every kind is bounced off the left and right edges
BouncesSides_All(col) == TRUE

\* whether the left and right edges are handled for this box (the else
\* branch of the test for CollisionType.BALL)
BouncesSides(col) == col.collision_type # "ball"

\* mutant: the boundary phase skips an entity that has no Velocity
BoundaryApplies_NeedsVelocity(cs) ==
    "Position" \in DOMAIN cs /\ "Collision" \in DOMAIN cs /\ "Velocity" \in DOMAIN cs

\* whether the loop body goes on for the entity (position and collision)
BoundaryApplies(cs) == "Position" \in DOMAIN cs /\ "Collision" \in DOMAIN cs

\* the components cs of one entity after the boundary phase handled it
BoundaryEntity(cs) ==
    IF ~BoundaryApplies(cs) THEN cs
    ELSE
    LET pos == cs["Position"]
        col == cs["Collision"]
        hasVel == "Velocity" \in DOMAIN cs
        b == get_collision_bounds(col, pos.x, pos.y)
        sides == BouncesSides(col)
        hitLeft == sides /\ b.left <= 0
        hitRight == sides /\ ~hitLeft /\ b.right >= Px(SCREEN_WIDTH)
        hitTop == b.top <= 0
        hitBottom == ~hitTop /\ b.bottom >= Px(SCREEN_HEIGHT)
        x1 == IF hitLeft THEN col.width \div 2
              ELSE IF hitRight THEN Px(SCREEN_WIDTH) - col.width \div 2
              ELSE pos.x
        y1 == IF hitTop THEN col.height \div 2
              ELSE IF hitBottom THEN Px(SCREEN_HEIGHT) - col.height \div 2
              ELSE pos.y
        \* "additional safety for paddles", on the bounds computed at entry
        y2 == IF col.collision_type = "paddle"
              THEN IF b.top < 0 THEN col.height \div 2
                   ELSE IF b.bottom > Px(SCREEN_HEIGHT)
                        THEN Px(SCREEN_HEIGHT) - col.height \div 2
                        ELSE y1
              ELSE y1
        v1 == IF hasVel /\ (hitLeft \/ hitRight) THEN BouncedX(cs["Velocity"], col)
              ELSE IF hasVel THEN cs["Velocity"] ELSE None
        v2 == IF hasVel /\ (hitTop \/ hitBottom) THEN BouncedY(v1, col) ELSE v1
        moved == DictSet(cs, "Position", [x |-> x1, y |-> y2])
    IN IF hasVel THEN DictSet(moved, "Velocity", v2) ELSE moved

\* _handle_boundary_collisions over the entities of the list
BoundaryHandled(comps, ents) ==
    [e \in DOMAIN comps |-> IF e \in ents THEN BoundaryEntity(comps[e]) ELSE comps[e]]

handle_boundary_collisions ==
    /\ last.n < MaxRuns
    /\ components' =
           BoundaryHandled(components,
               get_entities_with_components(<<"Position", "Collision">>))
    /\ UNCHANGED <<next_entity_id, entities, component_to_entities, entities_to_destroy>>
    /\ UNCHANGED <<schedVars, scoreVars>>
    /\ last' = [op |-> "boundary", ids |-> {}, n |-> last.n + 1,
                moved |-> {e \in DOMAIN components :
                              "Position" \in DOMAIN components[e]
                              /\ components'[e]["Position"] # components[e]["Position"]}]

\* the values the entity of the boundary specification is built from
BoundaryXs == {Px(-60), Px(-5), Px(5), Px(400), Px(795), Px(805)}

BoundaryYs == {Px(-5), Px(5), Px(6), Px(300), Px(594), Px(595), Px(605)}

BoundaryVelocities ==
    {[dx |-> Px(a), dy |-> Px(b), max_speed |-> Px(m)] :
        a \in {-100, 100}, b \in {-100, 0, 100}, m \in {0}}
    \cup {[dx |-> Px(a), dy |-> Px(b), max_speed |-> Px(600)] :
              a \in {-480, 0}, b \in {-360, 360}}

\* BALL_BOUNCE_FACTOR 1.0, PADDLE_BOUNCE_FACTOR 1.1, a goal's 0.0, and 0.5
BounceFactors == {0, 5, 10, 11}

BoundaryBoxes ==
    {[width |-> Px(10), height |-> Px(10), collision_type |-> "ball", bounce_factor |-> f] :
        f \in BounceFactors}
    \cup {[width |-> Px(15), height |-> Px(80), collision_type |-> "paddle",
           bounce_factor |-> f] : f \in {11}}
    \cup {[width |-> Px(10), height |-> Px(10), collision_type |-> t, bounce_factor |-> f] :
              t \in {"wall", "goal"}, f \in {0, 10}}

\* one entity with Position and Collision, with or without Velocity
BoundaryInit ==
    /\ next_entity_id = 2
    /\ entities = {1}
    /\ entities_to_destroy = {}
    /\ \E x \in BoundaryXs, y \in BoundaryYs, col \in BoundaryBoxes :
           \/ /\ components = [e \in {1} |-> [k \in {"Position", "Collision"} |->
                                  IF k = "Position" THEN [x |-> x, y |-> y] ELSE col]]
              /\ component_to_entities =
                     [k \in Kinds |-> IF k \in {"Position", "Collision"} THEN {1} ELSE {}]
           \/ \E v \in BoundaryVelocities :
                  /\ components =
                         [e \in {1} |-> [k \in {"Position", "Collision", "Velocity"} |->
                             IF k = "Position" THEN [x |-> x, y |-> y]
                             ELSE IF k = "Collision" THEN col ELSE v]]
                  /\ component_to_entities =
                         [k \in Kinds |->
                             IF k \in {"Position", "Collision", "Velocity"} THEN {1} ELSE {}]
    /\ SchedIdle
    /\ ScoreIdle
    /\ last = [op |-> "init", ids |-> {}, n |-> 0]

BoundaryNext == handle_boundary_collisions

BoundarySpec == BoundaryInit /\ [][BoundaryNext]_vars

(***************************************************************************)
(* Score state machine: ScoreComponent and ScoreSystem.                    *)
(***************************************************************************)
\* ScoreComponent.__init__
ScoreComponent(p1, p2, ws, stw) ==
    [player1_score |-> p1, player2_score |-> p2, winning_score |-> ws,
     score_to_win |-> stw, game_over |-> FALSE, winner |-> NoPlayer,
     last_scorer |-> NoPlayer, score_events |-> <<>>, max_events |-> 10]

get_score_tuple(sc) == <<sc.player1_score, sc.player2_score>>

\* mutant: the event list is never shortened
add_score_event_KeepAll(sc, player, points) ==
    [sc EXCEPT !.score_events =
        Append(@, [player |-> player, points |-> points,
                   scores_after |-> get_score_tuple(sc)])]

\* the component after _add_score_event
add_score_event(sc, player, points) ==
    LET event == [player |-> player, points |-> points,
                  scores_after |-> get_score_tuple(sc)]
        events == Append(sc.score_events, event)
    IN [sc EXCEPT !.score_events =
                      IF Len(events) > sc.max_events THEN Tail(events) ELSE events]

\* mutant: add_score goes on after the game is over
GameOverBlocks_Never(sc) == FALSE

\* whether add_score returns at once because the game is over
GameOverBlocks(sc) == sc.game_over

\* add_score: the component after the call (sc) and the value returned (ret)
AddedScore(sc, player, points) ==
    IF GameOverBlocks(sc) THEN [sc |-> sc, ret |-> FALSE]
    ELSE IF player \notin {1, 2} THEN [sc |-> sc, ret |-> FALSE]
    ELSE LET s1 == IF player = 1
                   THEN [sc EXCEPT !.player1_score = @ + points]
                   ELSE [sc EXCEPT !.player2_score = @ + points]
             s2 == add_score_event([s1 EXCEPT !.last_scorer = player], player, points)
         IN IF s2.score_to_win /\ s2.player1_score >= s2.winning_score
            THEN [sc |-> [s2 EXCEPT !.game_over = TRUE, !.winner = 1], ret |-> TRUE]
            ELSE IF s2.score_to_win /\ s2.player2_score >= s2.winning_score
            THEN [sc |-> [s2 EXCEPT !.game_over = TRUE, !.winner = 2], ret |-> TRUE]
            ELSE [sc |-> s2, ret |-> FALSE]

\* mutant: reset_scores(reset_game_state = False)
reset_scores_KeepState(sc) ==
    [sc EXCEPT !.player1_score = 0, !.player2_score = 0, !.last_scorer = NoPlayer,
               !.score_events = <<>>]

\* the component after reset_scores(reset_game_state = True)
reset_scores(sc) ==
    [sc EXCEPT !.player1_score = 0, !.player2_score = 0, !.last_scorer = NoPlayer,
               !.score_events = <<>>, !.game_over = FALSE, !.winner = NoPlayer]

score_boundary_left == Px(-50)

score_boundary_right == Px(SCREEN_WIDTH + 50)

\* mutant: no cooldown between two scores
InCooldown_Never(current_time, last_score_time) == FALSE

\* whether _check_scoring_conditions returns because of the cooldown
InCooldown(current_time, last_score_time) ==
    current_time - last_score_time < score_cooldown

\* mutant: a ball on a threshold scores
ScoringPlayer_Inclusive(x) ==
    IF x <= score_boundary_left THEN 2
    ELSE IF x >= score_boundary_right THEN 1
    ELSE NoPlayer

\* the player _check_scoring_conditions scores for with the ball at x
ScoringPlayer(x) ==
    IF x < score_boundary_left THEN 2
    ELSE IF x > score_boundary_right THEN 1
    ELSE NoPlayer

\* get_component on a store with the table comps and the active set ents
Has(comps, ents, e, k) == e \in ents /\ k \in DOMAIN CompsOf(comps, e)

\* the table comps with the Score component of entity e replaced by sc
WithScore(comps, e, sc) == [comps EXCEPT ![e] = [@ EXCEPT !["Score"] = sc]]

\* the event _handle_score_event and force_score hand to the listeners, built
\* from the component sc after add_score and the value game_over it returned
score_event(sc, player, game_over, forced) ==
    [player |-> player, scores |-> get_score_tuple(sc), game_over |-> game_over,
     winner |-> IF game_over THEN sc.winner ELSE NoPlayer, forced |-> forced]

\* mutant: a listener is called outside any try block
Caught_Never(listener) == FALSE

\* whether what the listener raises is caught where it is called
\* (try / except Exception around each call)
Caught(listener) == TRUE

\* the first listener of callbacks[i..] whose exception escapes, 0 if none
RECURSIVE FirstEscape(_, _)
FirstEscape(callbacks, i) ==
    IF i > Len(callbacks) THEN 0
    ELSE IF callbacks[i] = "raises" /\ ~Caught(callbacks[i]) THEN i
    ELSE FirstEscape(callbacks, i + 1)

\* one loop over a listener list: the calls made, and whether an exception
\* left the loop
Notified(callbacks, list, event) ==
    LET stop == FirstEscape(callbacks, 1)
        n == IF stop = 0 THEN Len(callbacks) ELSE stop
    IN [calls |-> [i \in 1..n |-> [list |-> list, index |-> i, event |-> event]],
        escaped |-> stop # 0]

\* mutant: the game-over listeners are called for every event
Dispatched_EveryEvent(sys, event) ==
    LET s == Notified(sys.on_score_callbacks, "score", event)
        g == IF ~s.escaped
             THEN Notified(sys.on_game_over_callbacks, "game_over", event)
             ELSE [calls |-> <<>>, escaped |-> FALSE]
    IN [calls |-> s.calls \o g.calls, escaped |-> s.escaped \/ g.escaped]

\* the two loops of _handle_score_event and of force_score
Dispatched(sys, event) ==
    LET s == Notified(sys.on_score_callbacks, "score", event)
        g == IF ~s.escaped /\ event.game_over
             THEN Notified(sys.on_game_over_callbacks, "game_over", event)
             ELSE [calls |-> <<>>, escaped |-> FALSE]
    IN [calls |-> s.calls \o g.calls, escaped |-> s.escaped \/ g.escaped]

\* mutant: a check that returns early still starts the cooldown
Unscored_Stamped(comps, sys, current_time) ==
    [comps |-> comps, sys |-> [sys EXCEPT !.last_score_time = current_time],
     calls |-> <<>>, raised |-> FALSE]

\* an early return of _check_scoring_conditions: nothing is changed, no
\* listener is called
Unscored(comps, sys, current_time) ==
    [comps |-> comps, sys |-> sys, calls |-> <<>>, raised |-> FALSE]

\* _check_scoring_conditions and _handle_score_event at time current_time:
\* the component table and the system after it, the listener calls made
\* and whether an exception left the call
CheckedScoring(comps, ents, sys, current_time) ==
    LET same == Unscored(comps, sys, current_time)
        b == sys.ball_entity
        m == sys.score_manager_entity
    IN IF InCooldown(current_time, sys.last_score_time) THEN same
       ELSE IF ~Has(comps, ents, b, "Position") THEN same
       ELSE IF ~Has(comps, ents, m, "Score") THEN same
       ELSE IF comps[m]["Score"].game_over THEN same
       ELSE LET player == ScoringPlayer(comps[b]["Position"].x)
            IN IF player = NoPlayer THEN same
               ELSE LET r == AddedScore(comps[m]["Score"], player, 1)
                        d == Dispatched(sys, score_event(r.sc, player, r.ret, FALSE))
                    IN [comps |-> WithScore(comps, m, r.sc),
                        sys |-> IF d.escaped THEN sys
                                ELSE [sys EXCEPT !.last_score_time = current_time],
                        calls |-> d.calls, raised |-> d.escaped]

\* the component after _update_score_component
SyncedWinningScore(sc, cfg) ==
    IF sc.winning_score # cfg.WINNING_SCORE
    THEN [sc EXCEPT !.winning_score = cfg.WINNING_SCORE]
    ELSE sc

\* the component table after the loop of ScoreSystem.update over ents
SyncedAll(comps, ents, cfg) ==
    [e \in DOMAIN comps |->
        IF e \in ents /\ "Score" \in DOMAIN comps[e]
        THEN [comps[e] EXCEPT !["Score"] = SyncedWinningScore(@, cfg)]
        ELSE comps[e]]

\* the scores held by the component table comps
ScoresIn(comps) ==
    [e \in {x \in DOMAIN comps : "Score" \in DOMAIN comps[x]} |->
        get_score_tuple(comps[e]["Score"])]

\* scored_at after a step of the ScoreSystem that took comps to after
ScoredAt(comps, after) ==
    IF ScoresIn(after) # ScoresIn(comps) THEN {now} ELSE scored_at

ScoreOp(op, ret, player, scored) ==
    [op |-> op, ret |-> ret, player |-> player, scored |-> scored,
     again |-> scored /\ scored_at # {}, calls |-> <<>>, raised |-> FALSE,
     was_over |-> FALSE]

\* ScoreComponent.add_score on the component of entity e
add_score(e, player, points) ==
    /\ has_component(e, "Score")
    /\ LET r == AddedScore(components[e]["Score"], player, points)
       IN /\ components' = WithScore(components, e, r.sc)
          /\ last' = ScoreOp("add_score", r.ret, player, FALSE)
    /\ UNCHANGED <<next_entity_id, entities, component_to_entities, entities_to_destroy>>
    /\ UNCHANGED <<schedVars, scoreVars>>

\* ScoreSystem.force_score
force_score(player, points) ==
    /\ LET m == score_system.score_manager_entity
       IN IF m = NoEntity \/ ~has_component(m, "Score")
          THEN /\ UNCHANGED components
               /\ last' = ScoreOp("force_score", FALSE, player, FALSE)
          ELSE LET r == AddedScore(components[m]["Score"], player, points)
                   d == Dispatched(score_system, score_event(r.sc, player, r.ret, TRUE))
               IN /\ components' = WithScore(components, m, r.sc)
                  /\ last' = [ScoreOp("force_score", r.ret /\ ~d.escaped, player, FALSE)
                                 EXCEPT !.calls = d.calls, !.raised = d.escaped]
    /\ UNCHANGED <<next_entity_id, entities, component_to_entities, entities_to_destroy>>
    /\ UNCHANGED <<schedVars, scoreVars>>

\* ScoreSystem._check_scoring_conditions
check_scoring ==
    /\ LET r == CheckedScoring(components, entities, score_system, now)
       IN /\ components' = r.comps
          /\ score_system' = r.sys
          /\ scored_at' = ScoredAt(components, r.comps)
          /\ last' = [ScoreOp("check_scoring", FALSE, NoPlayer,
                              ScoresIn(r.comps) # ScoresIn(components))
                         EXCEPT !.calls = r.calls, !.raised = r.raised]
    /\ UNCHANGED <<next_entity_id, entities, component_to_entities, entities_to_destroy>>
    /\ UNCHANGED <<schedVars, config, now, game>>

\* ScoreSystem.update with the entity list the SystemManager hands to it
score_update ==
    /\ LET ents == get_entities_with_components(get_required_components("ScoreSystem"))
           r == IF score_system.ball_entity # NoEntity
                   /\ score_system.score_manager_entity # NoEntity
                THEN CheckedScoring(components, entities, score_system, now)
                ELSE [comps |-> components, sys |-> score_system,
                      calls |-> <<>>, raised |-> FALSE]
       IN /\ components' = IF r.raised THEN r.comps
                           ELSE SyncedAll(r.comps, ents, config)
          /\ score_system' = r.sys
          /\ scored_at' = ScoredAt(components, r.comps)
          /\ last' = [ScoreOp("update", FALSE, NoPlayer,
                              ScoresIn(r.comps) # ScoresIn(components))
                         EXCEPT !.calls = r.calls, !.raised = r.raised]
    /\ UNCHANGED <<next_entity_id, entities, component_to_entities, entities_to_destroy>>
    /\ UNCHANGED <<schedVars, config, now, game>>

\* the entities that hold a Score component
ScoreHolders == {e \in entities : has_component(e, "Score")}

\* ScoreSystem.reset_game
reset_game ==
    /\ LET m == score_system.score_manager_entity
       IN IF m # NoEntity /\ has_component(m, "Score")
          THEN /\ components' = WithScore(components, m, reset_scores(components[m]["Score"]))
               /\ score_system' = [score_system EXCEPT !.last_score_time = 0]
          ELSE UNCHANGED <<components, score_system>>
    /\ scored_at' = {}
    /\ last' = [ScoreOp("reset_game", FALSE, NoPlayer, FALSE)
                   EXCEPT !.was_over = \E e \in ScoreHolders : components[e]["Score"].game_over]
    /\ UNCHANGED <<next_entity_id, entities, component_to_entities, entities_to_destroy>>
    /\ UNCHANGED <<schedVars, config, now, game>>

\* the host changes WINNING_SCORE of the configuration while the game runs
set_winning_score(w) ==
    /\ config.WINNING_SCORE # w
    /\ config' = [config EXCEPT !.WINNING_SCORE = w]
    /\ last' = ScoreOp("set_winning_score", FALSE, NoPlayer, FALSE)
    /\ UNCHANGED <<storeVars, schedVars, score_system, now, scored_at, game>>

\* the MovementSystem moves the entity e to the horizontal position x
move_to(e, x) ==
    /\ has_component(e, "Position")
    /\ components[e]["Position"].x # x
    /\ components' = [components EXCEPT ![e] =
                          [@ EXCEPT !["Position"] = [@ EXCEPT !.x = x]]]
    /\ scored_at' = IF e = score_system.ball_entity
                       /\ ScoringPlayer(x) # ScoringPlayer(components[e]["Position"].x)
                    THEN {}
                    ELSE scored_at
    /\ last' = ScoreOp("move_to", FALSE, NoPlayer, FALSE)
    /\ UNCHANGED <<next_entity_id, entities, component_to_entities, entities_to_destroy>>
    /\ UNCHANGED <<schedVars, score_system, config, now, game>>

\* wall-clock time passes
tick ==
    /\ now < MaxTime
    /\ now' = now + 1
    /\ last' = ScoreOp("tick", FALSE, NoPlayer, FALSE)
    /\ UNCHANGED <<storeVars, schedVars, score_system, config, scored_at, game>>

\* the values the score specification draws its inputs from
WinningScores == {1, 2}

PlayerArgs == {1, 2, 3}

PointArgs == {1, 2}

BallXs == {score_boundary_left - 1, score_boundary_left, Px(400),
           score_boundary_right, score_boundary_right + 1}

\* a score manager (entity 1) and a ball (entity 2) in the store, both set on
\* the ScoreSystem
ScoreInit ==
    /\ next_entity_id = 3
    /\ entities = {1, 2}
    /\ entities_to_destroy = {}
    /\ \E ws \in WinningScores, x \in BallXs :
           /\ components =
                  [e \in {1, 2} |->
                      IF e = 1 THEN [k \in {"Score"} |-> ScoreComponent(0, 0, ws, TRUE)]
                      ELSE [k \in {"Position"} |-> [x |-> x, y |-> Px(300)]]]
           /\ config = [WINNING_SCORE |-> ws]
    /\ component_to_entities =
           [k \in Kinds |-> IF k = "Score" THEN {1} ELSE IF k = "Position" THEN {2} ELSE {}]
    /\ SchedIdle
    /\ score_system = [score_manager_entity |-> 1, ball_entity |-> 2,
                       on_score_callbacks |-> <<>>, on_game_over_callbacks |-> <<>>,
                       last_score_time |-> 0]
    /\ now = score_cooldown
    /\ scored_at = {}
    /\ game = [paused |-> FALSE, ball |-> NoEntity]
    /\ last = ScoreOp("init", FALSE, NoPlayer, FALSE)

ScoreNext ==
    \/ \E e \in {1}, player \in PlayerArgs, points \in PointArgs :
           add_score(e, player, points)
    \/ \E player \in PlayerArgs, points \in PointArgs : force_score(player, points)
    \/ check_scoring
    \/ score_update
    \/ reset_game
    \/ \E w \in WinningScores : set_winning_score(w)
    \/ \E x \in BallXs : move_to(2, x)
    \/ tick

ScoreSpec == ScoreInit /\ [][ScoreNext]_vars

(***************************************************************************)
(* A game session with listeners registered on the ScoreSystem.            *)
(***************************************************************************)
\* the winning score of the session (tests/test_scoring.py sets 3)
SessionWinningScores == {3}

\* the listener lists add_score_callback / add_game_over_callback have
\* built: a listener either returns or raises an Exception
ListenerLists == {<<"raises", "returns">>, <<"returns", "raises">>}

SessionXs == {score_boundary_left - 1, score_boundary_right + 1}

\* a score manager (entity 1) and a ball (entity 2) set on the ScoreSystem,
\* two score listeners and two game-over listeners registered
SessionInit ==
    /\ next_entity_id = 3
    /\ entities = {1, 2}
    /\ entities_to_destroy = {}
    /\ \E ws \in SessionWinningScores, x \in SessionXs :
           /\ components =
                  [e \in {1, 2} |->
                      IF e = 1 THEN [k \in {"Score"} |-> ScoreComponent(0, 0, ws, TRUE)]
                      ELSE [k \in {"Position"} |-> [x |-> x, y |-> Px(300)]]]
           /\ config = [WINNING_SCORE |-> ws]
    /\ component_to_entities =
           [k \in Kinds |-> IF k = "Score" THEN {1} ELSE IF k = "Position" THEN {2} ELSE {}]
    /\ SchedIdle
    /\ \E s \in ListenerLists, g \in ListenerLists :
           score_system = [score_manager_entity |-> 1, ball_entity |-> 2,
                           on_score_callbacks |-> s, on_game_over_callbacks |-> g,
                           last_score_time |-> 0]
    /\ now = score_cooldown
    /\ scored_at = {}
    /\ game = [paused |-> FALSE, ball |-> NoEntity]
    /\ last = ScoreOp("init", FALSE, NoPlayer, FALSE)

SessionNext ==
    \/ \E player \in {1, 2} : add_score(1, player, 1)
    \/ \E player \in PlayerArgs : force_score(player, 1)
    \/ check_scoring
    \/ score_update
    \/ reset_game
    \/ \E x \in SessionXs : move_to(2, x)
    \/ tick

SessionSpec == SessionInit /\ [][SessionNext]_vars

(***************************************************************************)
(* Pairwise phase of the CollisionSystem. A Collision component here also  *)
(* carries solid and collision_mask (the set of kinds it accepts).         *)
(***************************************************************************)
\* BALL_SPEED_INCREASE 1.05, in hundredths
BALL_SPEED_INCREASE == 105

\* in pixels per second
MAX_BALL_SPEED == 600

\* mutant: an entity accepts every kind
can_collide_with_Any(col, other_type) == TRUE

can_collide_with(col, other_type) == other_type \in col.collision_mask

\* int() of a length given in tenths of a pixel: whole pixels, truncated
\* towards zero
int(v) == IF v >= 0 THEN v \div 10 ELSE -((-v) \div 10)

\* pygame.Rect(left, top, width, height) in whole pixels
get_collision_rect(col, x, y) ==
    [left |-> int(x - col.width \div 2), top |-> int(y - col.height \div 2),
     width |-> int(col.width), height |-> int(col.height)]

\* pygame.Rect.colliderect: the interiors overlap; a rectangle without area
\* collides with nothing
colliderect(a, b) ==
    /\ a.width > 0 /\ a.height > 0 /\ b.width > 0 /\ b.height > 0
    /\ a.left < b.left + b.width
    /\ b.left < a.left + a.width
    /\ a.top < b.top + b.height
    /\ b.top < a.top + a.height

\* VelocityComponent.normalize
normalize(v, target_speed) ==
    IF get_speed(v) > 0
    THEN [v EXCEPT !.dx = RoundDiv(v.dx * target_speed, get_speed(v)),
                   !.dy = RoundDiv(v.dy * target_speed, get_speed(v))]
    ELSE v

\* hit_offset * 100 for a ball at height ball_y on a paddle at paddle_y, in
\* tenths of a pixel per second
HitOffset100(ball_y, paddle_y, paddle_height) ==
    LET raw == RoundDiv((ball_y - paddle_y) * 2000, paddle_height)
    IN IF raw > 1000 THEN 1000 ELSE IF raw < -1000 THEN -1000 ELSE raw

\* mutant: the ball is put back on the centre line of the paddle
SeparatedX_Centre(ball_x, paddle_x, paddle_width, ball_width) == paddle_x

\* the x of the ball after it was separated from the paddle
SeparatedX(ball_x, paddle_x, paddle_width, ball_width) ==
    IF ball_x < paddle_x
    THEN paddle_x - (paddle_width + ball_width) \div 2 - Px(1)
    ELSE paddle_x + (paddle_width + ball_width) \div 2 + Px(1)

\* the ball's velocity after the paddle returned it
ReturnedVelocity(v, ball, paddle) ==
    LET v1 == reflect_x(v)
        v2 == [v1 EXCEPT !.dy = @ + HitOffset100(ball["Position"].y,
                                       paddle["Position"].y, paddle["Collision"].height)]
        f == ball["Collision"].bounce_factor * BALL_SPEED_INCREASE
        v3 == clamp_to_max_speed([v2 EXCEPT !.dx = RoundDiv(v2.dx * f, 1000),
                                            !.dy = RoundDiv(v2.dy * f, 1000)])
    IN IF v3.dx * v3.dx + v3.dy * v3.dy > Px(MAX_BALL_SPEED) * Px(MAX_BALL_SPEED)
       THEN normalize(v3, Px(MAX_BALL_SPEED))
       ELSE v3

\* the components of the ball after the Ball-Paddle branch
ReturnedBall(ball, paddle) ==
    IF "Velocity" \notin DOMAIN ball THEN ball
    ELSE [ball EXCEPT
             !["Velocity"] = ReturnedVelocity(@, ball, paddle),
             !["Position"] = [@ EXCEPT !.x =
                 SeparatedX(ball["Position"].x, paddle["Position"].x,
                            paddle["Collision"].width, ball["Collision"].width)]]

\* mutant: the two solid entities are separated without the extra unit
SeparatedSolid_NoMargin(a, b) ==
    LET dx == a["Position"].x - b["Position"].x
        dy == a["Position"].y - b["Position"].y
        distance == Sqrt(dx * dx + dy * dy)
        sep_distance == (a["Collision"].width + b["Collision"].width) \div 2
    IN IF distance > 0
       THEN [a EXCEPT !["Position"] =
                [x |-> b["Position"].x + RoundDiv(dx * sep_distance, distance),
                 y |-> b["Position"].y + RoundDiv(dy * sep_distance, distance)]]
       ELSE a

\* the components of entity a after the separation of two solid entities
SeparatedSolid(a, b) ==
    LET dx == a["Position"].x - b["Position"].x
        dy == a["Position"].y - b["Position"].y
        distance == Sqrt(dx * dx + dy * dy)
        sep_distance == (a["Collision"].width + b["Collision"].width) \div 2 + Px(1)
    IN IF distance > 0
       THEN [a EXCEPT !["Position"] =
                [x |-> b["Position"].x + RoundDiv(dx * sep_distance, distance),
                 y |-> b["Position"].y + RoundDiv(dy * sep_distance, distance)]]
       ELSE a

\* _resolve_collision: the components (a, b) of the pair after it
ResolvedCollision(a, b) ==
    LET ta == a["Collision"].collision_type
        tb == b["Collision"].collision_type
    IN IF ta = "ball" /\ tb = "paddle" THEN [a |-> ReturnedBall(a, b), b |-> b]
       ELSE IF ta = "paddle" /\ tb = "ball" THEN [a |-> a, b |-> ReturnedBall(b, a)]
       ELSE IF a["Collision"].solid /\ b["Collision"].solid
       THEN [a |-> SeparatedSolid(a, b), b |-> b]
       ELSE [a |-> a, b |-> b]

\* whether the rectangles of the entities with components a and b overlap
Overlap(a, b) ==
    colliderect(get_collision_rect(a["Collision"], a["Position"].x, a["Position"].y),
                get_collision_rect(b["Collision"], b["Position"].x, b["Position"].y))

\* _check_collision_pair: the components (a, b) of the pair after it
CheckedPair(a, b) ==
    LET same == [a |-> a, b |-> b]
    IN IF ~({"Position", "Collision"} \subseteq DOMAIN a
            /\ {"Position", "Collision"} \subseteq DOMAIN b) THEN same
       ELSE IF ~(can_collide_with(a["Collision"], b["Collision"].collision_type)
                 /\ can_collide_with(b["Collision"], a["Collision"].collision_type))
       THEN same
       ELSE IF Overlap(a, b) THEN ResolvedCollision(a, b)
       ELSE same

\* the pairs (i, j), i before j, of the entity list, in the order of the
\* two nested loops
EntityPairs(ents) ==
    LET P == {p \in ents \X ents : p[1] < p[2]}
        Before(p, q) == p[1] < q[1] \/ (p[1] = q[1] /\ p[2] < q[2])
    IN CHOOSE s \in [1..Cardinality(P) -> P] :
           \A m, n \in 1..Cardinality(P) : m < n => Before(s[m], s[n])

\* the table comps after _check_collision_pair on the pair p of ids
PairHandled(comps, p) ==
    LET r == CheckedPair(comps[p[1]], comps[p[2]])
    IN [comps EXCEPT ![p[1]] = r.a, ![p[2]] = r.b]

\* the table after the pairs of the list, one after the other, each on the
\* table the pair before it left
RECURSIVE PairsHandled(_, _)
PairsHandled(comps, pairs) ==
    IF pairs = <<>> THEN comps
    ELSE CHOOSE after \in {PairsHandled(c, Tail(pairs)) :
                               c \in {PairHandled(comps, Head(pairs))}} : TRUE

\* _handle_entity_collisions over the entity list
EntityHandled(comps, ents) ==
    CHOOSE after \in {PairsHandled(comps, pairs) : pairs \in {EntityPairs(ents)}} : TRUE

handle_entity_collisions ==
    /\ last.n < MaxRuns
    /\ components' =
           EntityHandled(components,
               get_entities_with_components(<<"Position", "Collision">>))
    /\ UNCHANGED <<next_entity_id, entities, component_to_entities, entities_to_destroy>>
    /\ UNCHANGED <<schedVars, scoreVars>>
    /\ last' = [op |-> "pairs", ids |-> {}, n |-> last.n + 1]

\* CollisionSystem.update: the boundary phase, then the pairwise phase
collision_update ==
    /\ last.n < MaxRuns
    /\ LET ents == get_entities_with_components(<<"Position", "Collision">>)
       IN components' = EntityHandled(BoundaryHandled(components, ents), ents)
    /\ UNCHANGED <<next_entity_id, entities, component_to_entities, entities_to_destroy>>
    /\ UNCHANGED <<schedVars, scoreVars>>
    /\ last' = [op |-> "update", ids |-> {}, n |-> last.n + 1]

\* the kinds of CollisionType
CollisionTypes == {"paddle", "ball", "wall", "goal"}

\* the Collision components of the pair specification: a ball, a paddle and a
\* wall, each with the mask its factory gives it or another one (the
\* component's default mask holds every kind)
PairBoxes ==
    {[width |-> Px(10), height |-> Px(10), collision_type |-> "ball", solid |-> FALSE,
      bounce_factor |-> f, collision_mask |-> m] :
        f \in {0, 10}, m \in {{"paddle", "wall"}, {"wall"}}}
    \cup {[width |-> Px(15), height |-> Px(80), collision_type |-> "paddle", solid |-> TRUE,
           bounce_factor |-> 11, collision_mask |-> m] : m \in {{"ball"}, CollisionTypes}}
    \cup {[width |-> Px(20), height |-> Px(20), collision_type |-> "wall", solid |-> TRUE,
           bounce_factor |-> 10, collision_mask |-> m] : m \in {{"ball"}, CollisionTypes}}

PairVelocities ==
    {[dx |-> Px(200), dy |-> 0, max_speed |-> Px(MAX_BALL_SPEED)],
     [dx |-> Px(-480), dy |-> Px(360), max_speed |-> Px(MAX_BALL_SPEED)],
     [dx |-> Px(-480), dy |-> Px(360), max_speed |-> 0]}

\* the components an entity of the pair specification starts with
PairComponents(x, y) ==
    {[k \in {"Position", "Collision"} |->
         IF k = "Position" THEN [x |-> x, y |-> y] ELSE col] : col \in PairBoxes}
    \cup {[k \in {"Position", "Collision", "Velocity"} |->
              IF k = "Position" THEN [x |-> x, y |-> y]
              ELSE IF k = "Collision" THEN col ELSE v] :
                  col \in {c \in PairBoxes : c.collision_type # "wall"}, v \in PairVelocities}

\* two entities, the second near or away from the first
PairInit ==
    /\ next_entity_id = 3
    /\ entities = {1, 2}
    /\ entities_to_destroy = {}
    /\ \E y1 \in {Px(40), Px(300)}, x2 \in {Px(44), Px(50), Px(57), Px(300)},
          y2 \in {Px(45), Px(330)} :
           \E a \in PairComponents(Px(50), y1), b \in PairComponents(x2, y2) :
               /\ components = [e \in {1, 2} |-> IF e = 1 THEN a ELSE b]
               /\ component_to_entities =
                      [k \in Kinds |-> {e \in {1, 2} :
                          k \in DOMAIN (IF e = 1 THEN a ELSE b)}]
    /\ SchedIdle
    /\ ScoreIdle
    /\ last = [op |-> "init", ids |-> {}, n |-> 0]

PairNext == handle_entity_collisions \/ collision_update

PairSpec == PairInit /\ [][PairNext]_vars

(***************************************************************************)
(* VelocityComponent on its own: one entity that holds a Velocity, and the *)
(* three operations that change it.                                        *)
(***************************************************************************)
\* the velocity after set_velocity(dx, dy)
set_velocity(v, dx, dy) == clamp_to_max_speed([v EXCEPT !.dx = dx, !.dy = dy])

\* the velocity after add_velocity(dx, dy)
add_velocity(v, dx, dy) == clamp_to_max_speed([v EXCEPT !.dx = @ + dx, !.dy = @ + dy])

\* the record of a velocity operation and its arguments
VelocityOp(op, args) == [op |-> op, ids |-> {}, n |-> last.n + 1, args |-> args]

VelocityStep(e, v, op, args) ==
    /\ last.n < MaxRuns
    /\ has_component(e, "Velocity")
    /\ components' = [components EXCEPT ![e] = DictSet(@, "Velocity", v)]
    /\ UNCHANGED <<next_entity_id, entities, component_to_entities, entities_to_destroy>>
    /\ UNCHANGED <<schedVars, scoreVars>>
    /\ last' = VelocityOp(op, args)

velocity_set(e, dx, dy) ==
    VelocityStep(e, set_velocity(components[e]["Velocity"], dx, dy),
                 "set_velocity", <<dx, dy>>)

velocity_add(e, dx, dy) ==
    VelocityStep(e, add_velocity(components[e]["Velocity"], dx, dy),
                 "add_velocity", <<dx, dy>>)

velocity_scale(e, factor) ==
    VelocityStep(e, scale_velocity(components[e]["Velocity"], factor),
                 "scale_velocity", <<factor>>)

\* arguments of set_velocity and add_velocity, and factors (in tenths) of
\* scale_velocity
VelocityArgs == {Px(-700), Px(300), Px(600)}

VelocityFactors == {-10, 0, 5, 20}

VelocityInit ==
    /\ next_entity_id = 2
    /\ entities = {1}
    /\ entities_to_destroy = {}
    /\ \E dx \in {Px(-300), 0, Px(400)}, dy \in {0, Px(300)}, m \in {0, Px(500)} :
           components = [e \in {1} |-> [k \in {"Velocity"} |->
                            [dx |-> dx, dy |-> dy, max_speed |-> m]]]
    /\ component_to_entities = [k \in Kinds |-> IF k = "Velocity" THEN {1} ELSE {}]
    /\ SchedIdle
    /\ ScoreIdle
    /\ last = [op |-> "init", ids |-> {}, n |-> 0, args |-> <<>>]

VelocityNext ==
    \/ \E dx, dy \in VelocityArgs : velocity_set(1, dx, dy)
    \/ \E dx, dy \in VelocityArgs : velocity_add(1, dx, dy)
    \/ \E factor \in VelocityFactors : velocity_scale(1, factor)

VelocitySpec == VelocityInit /\ [][VelocityNext]_vars

(***************************************************************************)
(* A long game: one ScoreComponent with the default winning score, with    *)
(* and without score_to_win, and add_score calls of one point until        *)
(* MaxScores points were scored.                                           *)
(***************************************************************************)
\* the points player1 and player2 hold together in the component of entity e
PointsScored(e) ==
    components[e]["Score"].player1_score + components[e]["Score"].player2_score

HistoryInit ==
    /\ next_entity_id = 2
    /\ entities = {1}
    /\ entities_to_destroy = {}
    /\ \E stw \in BOOLEAN :
           components = [e \in {1} |->
                            [k \in {"Score"} |-> ScoreComponent(0, 0, WINNING_SCORE, stw)]]
    /\ component_to_entities = [k \in Kinds |-> IF k = "Score" THEN {1} ELSE {}]
    /\ SchedIdle
    /\ ScoreIdle
    /\ last = ScoreOp("init", FALSE, NoPlayer, FALSE)

HistoryNext ==
    \E player \in PlayerArgs : PointsScored(1) < MaxScores /\ add_score(1, player, 1)

HistorySpec == HistoryInit /\ [][HistoryNext]_vars

(***************************************************************************)
(* MovementSystem: update(dt, entities). dt counts milliseconds.           *)
(***************************************************************************)
\* mutant: the new position is kept on the screen
Advanced_OnScreen(pos, v, dt) ==
    LET x == pos.x + RoundDiv(v.dx * dt, 1000)
        y == pos.y + RoundDiv(v.dy * dt, 1000)
    IN [x |-> IF x < 0 THEN 0 ELSE IF x > Px(SCREEN_WIDTH) THEN Px(SCREEN_WIDTH) ELSE x,
        y |-> IF y < 0 THEN 0 ELSE IF y > Px(SCREEN_HEIGHT) THEN Px(SCREEN_HEIGHT) ELSE y]

\* position.x += velocity.dx * dt; position.y += velocity.dy * dt
Advanced(pos, v, dt) ==
    [x |-> pos.x + RoundDiv(v.dx * dt, 1000), y |-> pos.y + RoundDiv(v.dy * dt, 1000)]

\* the components cs of one listed entity after the loop body
MovedEntity(cs, dt) ==
    IF "Position" \in DOMAIN cs /\ "Velocity" \in DOMAIN cs
    THEN [cs EXCEPT !["Position"] = Advanced(@, cs["Velocity"], dt)]
    ELSE cs

\* MovementSystem.update over the list ents (get_component of an id that is
\* not active returns None)
movement_update(dt, ents) ==
    /\ last.n < MaxRuns
    /\ components' =
           [e \in DOMAIN components |->
               IF e \in ents /\ e \in entities THEN MovedEntity(components[e], dt)
               ELSE components[e]]
    /\ UNCHANGED <<next_entity_id, entities, component_to_entities, entities_to_destroy>>
    /\ UNCHANGED <<schedVars, scoreVars>>
    /\ last' = [op |-> "movement", ids |-> ents, n |-> last.n + 1, args |-> <<dt>>]

\* the steps of a frame: none, 1/60 s, 1/10 s, 1 s
MovementSteps == {0, 16, 100, 1000}

\* entity 1 holds Position and Velocity, entity 2 a Position only, entity 3
\* a Velocity only
MovementInit ==
    /\ next_entity_id = 4
    /\ entities = {1, 2, 3}
    /\ entities_to_destroy = {}
    /\ \E x \in {Px(5), Px(795)}, v \in PairVelocities :
           components =
               [e \in {1, 2, 3} |->
                   IF e = 1 THEN [k \in {"Position", "Velocity"} |->
                                     IF k = "Position" THEN [x |-> x, y |-> Px(590)] ELSE v]
                   ELSE IF e = 2 THEN [k \in {"Position"} |-> [x |-> x, y |-> Px(300)]]
                   ELSE [k \in {"Velocity"} |-> v]]
    /\ component_to_entities =
           [k \in Kinds |-> IF k = "Position" THEN {1, 2}
                            ELSE IF k = "Velocity" THEN {1, 3} ELSE {}]
    /\ SchedIdle
    /\ ScoreIdle
    /\ last = [op |-> "init", ids |-> {}, n |-> 0, args |-> <<>>]

MovementNext ==
    \E dt \in MovementSteps, ents \in SUBSET {1, 2, 3} : movement_update(dt, ents)

MovementSpec == MovementInit /\ [][MovementNext]_vars

(***************************************************************************)
(* A ScoreSystem whose tracked entities can lose their components or be    *)
(* destroyed and cleaned up between two updates.                           *)
(***************************************************************************)
\* destroy_entity(e) by the code around the ScoreSystem
tracked_destroy(e) ==
    /\ e \in entities
    /\ e \notin entities_to_destroy
    /\ entities_to_destroy' = Destroyed(entities_to_destroy, entities, e)
    /\ last' = ScoreOp("destroy_entity", FALSE, NoPlayer, FALSE)
    /\ UNCHANGED <<next_entity_id, entities, components, component_to_entities>>
    /\ UNCHANGED <<schedVars, scoreVars>>

\* cleanup_destroyed_entities at the end of a frame
tracked_cleanup ==
    /\ entities_to_destroy # {}
    /\ components' = CleanedComponents(components, entities_to_destroy)
    /\ component_to_entities' =
           CleanedIndex(components, component_to_entities, entities,
                        entities_to_destroy)
    /\ entities' = CleanedEntities(entities, entities_to_destroy)
    /\ entities_to_destroy' = {}
    /\ last' = ScoreOp("cleanup", FALSE, NoPlayer, FALSE)
    /\ UNCHANGED next_entity_id
    /\ UNCHANGED <<schedVars, scoreVars>>

\* remove_component(e, k) by the code around the ScoreSystem
tracked_remove(e, k) ==
    /\ has_component(e, k)
    /\ components' = RemovedComponents(components, entities, e, k)
    /\ component_to_entities' =
           RemovedIndex(components, component_to_entities, entities, e, k)
    /\ last' = ScoreOp("remove_component", FALSE, NoPlayer, FALSE)
    /\ UNCHANGED <<next_entity_id, entities, entities_to_destroy>>
    /\ UNCHANGED <<schedVars, scoreVars>>

\* a score manager (entity 1) and a ball (entity 2, on the screen or past a
\* threshold), both set on a ScoreSystem with one listener in each list
TrackedInit ==
    /\ next_entity_id = 3
    /\ entities = {1, 2}
    /\ entities_to_destroy = {}
    /\ \E ws \in WinningScores, x \in {score_boundary_left - 1, Px(400)} :
           /\ components =
                  [e \in {1, 2} |->
                      IF e = 1 THEN [k \in {"Score"} |-> ScoreComponent(0, 0, ws, TRUE)]
                      ELSE [k \in {"Position"} |-> [x |-> x, y |-> Px(300)]]]
           /\ config = [WINNING_SCORE |-> ws]
    /\ component_to_entities =
           [k \in Kinds |-> IF k = "Score" THEN {1} ELSE IF k = "Position" THEN {2} ELSE {}]
    /\ SchedIdle
    /\ score_system = [score_manager_entity |-> 1, ball_entity |-> 2,
                       on_score_callbacks |-> <<"returns">>,
                       on_game_over_callbacks |-> <<"returns">>,
                       last_score_time |-> 0]
    /\ now = score_cooldown
    /\ scored_at = {}
    /\ game = [paused |-> FALSE, ball |-> NoEntity]
    /\ last = ScoreOp("init", FALSE, NoPlayer, FALSE)

TrackedNext ==
    \/ \E e \in {1, 2} : tracked_destroy(e)
    \/ tracked_cleanup
    \/ \E e \in {1, 2}, k \in {"Position", "Score"} : tracked_remove(e, k)
    \/ score_update
    \/ \E x \in BallXs : move_to(2, x)
    \/ tick

TrackedSpec == TrackedInit /\ [][TrackedNext]_vars

(***************************************************************************)
(* One frame over the five systems Game registers, on a store whose        *)
(* entities hold components: an update may mark an entity for destruction  *)
(* or create one with its components (as Game._reset_ball does from the    *)
(* score listener).                                                        *)
(***************************************************************************)
\* the ids of the frame specification
MaxFrameIds == 3

\* mutant: the components of a created entity do not reach the reverse indices
CreatedIndex_Stale(index, e, ks) == index

\* the reverse indices after add_component of every kind of ks on e
CreatedIndex(index, e, ks) ==
    [k \in Kinds |-> IF k \in ks THEN index[k] \cup {e} ELSE index[k]]

\* the kinds EntityFactory gives a ball and a wall
CreatedKinds == {{"Position", "Velocity", "Render", "Collision"},
                 {"Position", "Render", "Collision"}}

\* one iteration of the loop of update_all_systems in which the update
\* creates an entity and adds a component of each kind of ks to it
update_system_creating(ks) ==
    /\ frame_pc \in 1..Len(systems)
    /\ enabled[systems[frame_pc]]
    /\ next_entity_id <= MaxFrameIds
    /\ LET t == systems[frame_pc]
           ents == get_entities_with_components(get_required_components(t))
       IN frame_log' = Append(frame_log, [sys |-> t, ents |-> ents])
    /\ frame_pc' = NextPc(frame_pc, FALSE)
    /\ next_entity_id' = next_entity_id + 1
    /\ entities' = CreatedEntities
    /\ components' = DictSet(components, next_entity_id, [k \in ks |-> "c"])
    /\ component_to_entities' = CreatedIndex(component_to_entities, next_entity_id, ks)
    /\ UNCHANGED entities_to_destroy
    /\ UNCHANGED <<systems, system_lookup, priority, enabled>>
    /\ UNCHANGED scoreVars
    /\ last' = [op |-> "update_system", ids |-> {next_entity_id}]

\* Game._initialize_systems, and one ball in the store
FrameInit ==
    /\ next_entity_id = 2
    /\ entities = {1}
    /\ entities_to_destroy = {}
    /\ components = [e \in {1} |->
                        [k \in {"Position", "Velocity", "Render", "Collision"} |-> "c"]]
    /\ component_to_entities =
           [k \in Kinds |->
               IF k \in {"Position", "Velocity", "Render", "Collision"} THEN {1} ELSE {}]
    /\ systems = <<"InputSystem", "MovementSystem", "CollisionSystem", "ScoreSystem",
                   "RenderSystem">>
    /\ system_lookup = SysTypes
    /\ priority = [t \in SysTypes |-> ClassPriority(t)]
    /\ enabled = [t \in SysTypes |-> TRUE]
    /\ frame_pc = 0
    /\ frame_log = <<>>
    /\ ScoreIdle
    /\ last = [op |-> "init", ids |-> {}]

FrameNext ==
    \/ update_all_systems_begin
    \/ \E effect \in UpdateEffects, e \in 1..MaxFrameIds : update_system(effect, e)
    \/ \E ks \in CreatedKinds : update_system_creating(ks)
    \/ update_all_systems_end

FrameSpec == FrameInit /\ [][FrameNext]_vars

(***************************************************************************)
(* The running game: one frame of Game.run, that is update_all_systems     *)
(* over the systems Game registers (Input 5, Movement 10, Collision 20,    *)
(* Score 50, Render 100) with the two listeners Game sets on the           *)
(* ScoreSystem, and the cleanup that ends the frame. No key is pressed:    *)
(* the paddles stand where the players left them and the game is neither   *)
(* paused nor reset by hand.                                               *)
(***************************************************************************)
BALL_SPEED == 200

PADDLE_SPEED == 300

PADDLE_OFFSET == 50

\* the score that ends the game of the game specification
GamePoints == 1

\* EntityFactory.create_paddle
PaddleComponents(x, y) ==
    [k \in {"Position", "Velocity", "Render", "Collision", "Input"} |->
        IF k = "Position" THEN [x |-> x, y |-> y]
        ELSE IF k = "Velocity" THEN [dx |-> 0, dy |-> 0, max_speed |-> Px(PADDLE_SPEED)]
        ELSE IF k = "Collision"
             THEN [width |-> Px(15), height |-> Px(80), collision_type |-> "paddle",
                   solid |-> TRUE, bounce_factor |-> 11, collision_mask |-> {"ball"}]
        ELSE IF k = "Render" THEN "render" ELSE "input"]

\* EntityFactory.create_ball with the start velocity v
BallComponents(x, y, v) ==
    [k \in {"Position", "Velocity", "Render", "Collision"} |->
        IF k = "Position" THEN [x |-> x, y |-> y]
        ELSE IF k = "Velocity" THEN v
        ELSE IF k = "Collision"
             THEN [width |-> Px(10), height |-> Px(10), collision_type |-> "ball",
                   solid |-> FALSE, bounce_factor |-> 10,
                   collision_mask |-> {"paddle", "wall"}]
        ELSE "render"]

\* the start velocities create_ball draws: direction -1 or 1, angle 0 or
\* about 29 degrees, speed BALL_SPEED
BallStarts ==
    {[dx |-> d * Px(BALL_SPEED), dy |-> 0, max_speed |-> Px(MAX_BALL_SPEED)] :
        d \in {-1, 1}}
    \cup {[dx |-> d * Px(175), dy |-> Px(97), max_speed |-> Px(MAX_BALL_SPEED)] :
             d \in {-1, 1}}

\* mutant: the ScoreSystem goes on monitoring the ball it was given first
set_ball_entity_Stale(sys, e) == sys

\* ScoreSystem.set_ball_entity
set_ball_entity(sys, e) == [sys EXCEPT !.ball_entity = e]

\* mutant: the score listener leaves the ball where it is
ResetBall_Keep(st, v) == st

\* Game._reset_ball on the store st: the ball of the Game is marked for
\* removal, a new one is created at the screen centre, kept as the ball of
\* the Game and set on the ScoreSystem
ResetBall(st, v) ==
    LET old == st.ball
        new == st.next
        kinds == DOMAIN BallComponents(0, 0, v)
    IN [next |-> st.next + 1,
        ents |-> st.ents \cup {new},
        comps |-> DictSet(st.comps, new,
                          BallComponents(Px(SCREEN_WIDTH \div 2),
                                         Px(SCREEN_HEIGHT \div 2), v)),
        index |-> [k \in Kinds |-> IF k \in kinds THEN st.index[k] \cup {new}
                                   ELSE st.index[k]],
        pending |-> IF old # NoEntity THEN Destroyed(st.pending, st.ents, old)
                    ELSE st.pending,
        sys |-> set_ball_entity(st.sys, new),
        ball |-> new]

\* Game.paused: set by _on_game_over_event, which the ScoreSystem calls
\* when a point ends the game
Paused == game.paused

\* whether the listener Game sets for the end of the game was called
GameOverHeard(calls) == \E i \in 1..Len(calls) : calls[i].list = "game_over"

\* InputSystem.update with no key down: set_velocity(0, 0)
Stilled(comps, ents) ==
    [e \in DOMAIN comps |->
        IF e \in ents /\ "Input" \in DOMAIN comps[e] /\ "Velocity" \in DOMAIN comps[e]
        THEN [comps[e] EXCEPT !["Velocity"] = set_velocity(@, 0, 0)]
        ELSE comps[e]]

\* time.time() in the frame that follows dt milliseconds after the last
\* one. The clock is read only in current_time - last_score_time <
\* score_cooldown, so it is not advanced past the end of the cooldown.
GameClock(dt) ==
    IF now + dt \div 500 >= score_system.last_score_time + score_cooldown
    THEN score_system.last_score_time + score_cooldown
    ELSE now + dt \div 500

\* which side of the screen the box of ball b has left, moving that way
BallOut(comps, b) ==
    IF b \notin DOMAIN comps \/ ~({"Position", "Velocity", "Collision"} \subseteq DOMAIN CompsOf(comps, b))
    THEN "none"
    ELSE LET bounds == get_collision_bounds(comps[b]["Collision"],
                                            comps[b]["Position"].x,
                                            comps[b]["Position"].y)
         IN IF bounds.left < 0 /\ comps[b]["Velocity"].dx < 0 THEN "left"
            ELSE IF bounds.right > Px(SCREEN_WIDTH) /\ comps[b]["Velocity"].dx > 0
            THEN "right"
            ELSE "none"

\* the store st after the listener Game sets for score events, for each
\* velocity random can give the new ball (scored: the listener was called)
AfterScoreListener(st, scored) ==
    IF scored THEN {ResetBall(st, v) : v \in BallStarts} ELSE {st}

\* one pass of the loop of Game.run while not paused: update_all_systems(dt)
\* (dt in milliseconds). The systems run in priority order, each on the
\* result of the one before it: c0 after Input, c1 after Movement, c2
\* after Collision, r and s after Score and its listeners; then the cleanup.
game_frame(dt) ==
    /\ ~Paused
    /\ \E c0 \in {Stilled(components, get_entities_with_components(<<"Input">>))} :
       \E c1 \in {[e \in DOMAIN c0 |->
                     IF e \in get_entities_with_components(<<"Position", "Velocity">>)
                     THEN MovedEntity(c0[e], dt) ELSE c0[e]]} :
       \E cb \in {BoundaryHandled(c1,
                      get_entities_with_components(<<"Position", "Collision">>))} :
       \E c2 \in {EntityHandled(cb,
                      get_entities_with_components(<<"Position", "Collision">>))} :
       \E r \in {IF score_system.ball_entity # NoEntity
                    /\ score_system.score_manager_entity # NoEntity
                 THEN CheckedScoring(c2, entities, score_system, GameClock(dt))
                 ELSE [comps |-> c2, sys |-> score_system, calls |-> <<>>,
                       raised |-> FALSE]} :
       \E s \in AfterScoreListener(
                  [next |-> next_entity_id, ents |-> entities, comps |-> r.comps,
                   index |-> component_to_entities, pending |-> entities_to_destroy,
                   sys |-> r.sys, ball |-> game.ball], Len(r.calls) > 0) :
       \E c3 \in {SyncedAll(s.comps, get_entities_with_components(<<"Score">>),
                            config)} :
          /\ next_entity_id' = s.next
          /\ components' = CleanedComponents(c3, s.pending)
          /\ component_to_entities' = CleanedIndex(c3, s.index, s.ents, s.pending)
          /\ entities' = CleanedEntities(s.ents, s.pending)
          /\ entities_to_destroy' = {}
          /\ score_system' = s.sys
          /\ game' = [paused |-> game.paused \/ GameOverHeard(r.calls), ball |-> s.ball]
          /\ now' = GameClock(dt)
          /\ last' = [op |-> "frame", ids |-> {}, args |-> <<dt>>,
                      ball |-> score_system.ball_entity,
                      out |-> BallOut(components, score_system.ball_entity),
                      calls |-> r.calls]
    /\ UNCHANGED <<schedVars, config, scored_at>>

\* the frame times of the game specification, in milliseconds
GameSteps == {500, 1000}

\* Game.initialize_game_entities, then play: score manager 1, paddles 2 and
\* 3 on their columns at the height the players moved them to, ball 4
GameInit ==
    /\ next_entity_id = 5
    /\ entities = {1, 2, 3, 4}
    /\ entities_to_destroy = {}
    /\ \E y \in {Px(300), Px(500)}, v \in BallStarts :
           components =
               [e \in {1, 2, 3, 4} |->
                   IF e = 1 THEN [k \in {"Score"} |-> ScoreComponent(0, 0, GamePoints, TRUE)]
                   ELSE IF e = 2 THEN PaddleComponents(Px(PADDLE_OFFSET), y)
                   ELSE IF e = 3 THEN PaddleComponents(Px(SCREEN_WIDTH - PADDLE_OFFSET), y)
                   ELSE BallComponents(Px(SCREEN_WIDTH \div 2), Px(SCREEN_HEIGHT \div 2), v)]
    /\ component_to_entities =
           [k \in Kinds |->
               IF k = "Score" THEN {1}
               ELSE IF k = "Input" THEN {2, 3}
               ELSE {2, 3, 4}]
    /\ SchedIdle
    /\ score_system = [score_manager_entity |-> 1, ball_entity |-> 4,
                       on_score_callbacks |-> <<"_on_score_event">>,
                       on_game_over_callbacks |-> <<"_on_game_over_event">>,
                       last_score_time |-> 0]
    /\ config = [WINNING_SCORE |-> GamePoints]
    /\ now = score_cooldown
    /\ scored_at = {}
    /\ game = [paused |-> FALSE, ball |-> 4]
    /\ last = [op |-> "init", ids |-> {}, args |-> <<>>, ball |-> NoEntity,
               out |-> "none", calls |-> <<>>]

GameNext == \E dt \in GameSteps : game_frame(dt)

GameSpec == GameInit /\ [][GameNext]_vars

\* the loop of Game.run takes a frame whenever the game is not paused
GameFairSpec == GameSpec /\ WF_vars(GameNext)

(***************************************************************************)
(* The running game with its keys: the loop of Game.run handles the        *)
(* events, then updates the systems unless the game is paused. R resets    *)
(* the game, P switches paused.                                            *)
(***************************************************************************)
\* no reset is made once this many entity ids were handed out
MaxPlayIds == 6

\* Game.player1_paddle and Game.player2_paddle, as initialize_game_entities
\* creates them, with the x of each in GameConfig.get_paddle_positions
PaddleHomes == [e \in {2, 3} |-> IF e = 2 THEN Px(PADDLE_OFFSET)
                                 ELSE Px(SCREEN_WIDTH - PADDLE_OFFSET)]

\* the component table with the paddles back on their start positions
PaddlesHome(comps) ==
    [e \in DOMAIN comps |->
        IF e \in DOMAIN PaddleHomes /\ "Position" \in DOMAIN comps[e]
        THEN [comps[e] EXCEPT !["Position"] =
                 [x |-> PaddleHomes[e], y |-> Px(SCREEN_HEIGHT \div 2)]]
        ELSE comps[e]]

\* the component table and the ScoreSystem after ScoreSystem.reset_game
ScoresReset(comps, sys) ==
    LET m == sys.score_manager_entity
    IN IF m # NoEntity /\ m \in DOMAIN comps /\ "Score" \in DOMAIN comps[m]
       THEN [comps |-> WithScore(comps, m, reset_scores(comps[m]["Score"])),
             sys |-> [sys EXCEPT !.last_score_time = 0]]
       ELSE [comps |-> comps, sys |-> sys]

\* the R key: Game._reset_game
press_r ==
    /\ next_entity_id <= MaxPlayIds
    /\ \E z \in {ScoresReset(components, score_system)} :
       \E s \in {ResetBall([next |-> next_entity_id, ents |-> entities,
                            comps |-> z.comps, index |-> component_to_entities,
                            pending |-> entities_to_destroy, sys |-> z.sys,
                            ball |-> game.ball], v) : v \in BallStarts} :
          /\ next_entity_id' = s.next
          /\ entities' = s.ents
          /\ components' = PaddlesHome(s.comps)
          /\ component_to_entities' = s.index
          /\ entities_to_destroy' = s.pending
          /\ score_system' = s.sys
          /\ game' = [paused |-> FALSE, ball |-> s.ball]
    /\ last' = [op |-> "reset", ids |-> {}, args |-> <<>>, ball |-> game.ball,
                out |-> "none", calls |-> <<>>]
    /\ UNCHANGED <<schedVars, config, now, scored_at>>

\* the P key: paused = not paused
press_p ==
    /\ game' = [game EXCEPT !.paused = ~game.paused]
    /\ last' = [op |-> "pause", ids |-> {}, args |-> <<>>, ball |-> game.ball,
                out |-> "none", calls |-> <<>>]
    /\ UNCHANGED <<storeVars, schedVars, score_system, config, now, scored_at>>

\* how far beyond the screen, in pixels, the frames follow a ball that no
\* score brings back (the game is over and was unpaused)
MaxBallReach == 200

BallInReach ==
    \/ ~has_component(game.ball, "Position")
    \/ /\ components[game.ball]["Position"].x >= Px(-MaxBallReach)
       /\ components[game.ball]["Position"].x <= Px(SCREEN_WIDTH + MaxBallReach)

\* one pass of the loop of Game.run with no key pressed
play_frame == BallInReach /\ GameNext

PlayNext ==
    \/ play_frame
    \/ press_r
    \/ press_p

PlaySpec == GameInit /\ [][PlayNext]_vars

Init ==
    /\ StoreInit
    /\ SchedIdle
    /\ ScoreIdle
    /\ last = NoOp

SchedSpec == Init /\ [][SchedNext]_vars

\* a second value of a kind, for one entity: the component that replaces
\* the one the entity holds
Replacements == {<<1, "Position", "p2">>}

Next ==
    \/ create_entity
    \/ \E e \in 1..MaxIds : destroy_entity(e)
    \/ \E e \in 1..MaxIds, k \in StoreKinds : \E v \in Values(k) : add_component(e, k, v)
    \/ \E r \in Replacements : add_component(r[1], r[2], r[3])
    \/ \E e \in 1..MaxIds, k \in StoreKinds : remove_component(e, k)
    \/ cleanup_destroyed_entities
    \/ clear_all

Spec == Init /\ [][Next]_vars

(***************************************************************************)
(* Properties of the entity store.                                         *)
(***************************************************************************)
\* the lists of kinds the queries of the properties ask for
KindLists ==
    LET ks == StoreKinds \cup {"Score"}
    IN {<<a>> : a \in ks} \cup {<<a, b>> : a \in ks, b \in ks}
           \cup {<<a, b, c>> : a \in ks, b \in ks, c \in ks}

\* the entities that hold every kind of the list and are not pending
Holders(kinds) ==
    {e \in entities :
        /\ e \notin entities_to_destroy
        /\ \A i \in 1..Len(kinds) : has_component(e, kinds[i])}

\* C1: a query for a non-empty list of kinds returns exactly the entities
\* that hold every requested kind and are not marked for destruction, in
\* every state create, add_component, remove_component, destroy and cleanup
\* lead to and for every order of the kinds in the request.
C1_QueryExact ==
    \A kinds \in KindLists : get_entities_with_components(kinds) = Holders(kinds)

\* C1 witness: one entity holds both kinds, one holds both and is pending,
\* one holds only one of them, and the query returns just the first.
C1_Witness ==
    \E a \in entities, b \in entities_to_destroy, c \in entities :
        /\ get_entities_with_components(<<"Position", "Velocity">>) = {a}
        /\ has_component(b, "Position") /\ has_component(b, "Velocity")
        /\ has_component(c, "Position") /\ ~has_component(c, "Velocity")
        /\ c \notin entities_to_destroy

\* C2: destroy removes nothing at once: a destroy step leaves the result of
\* get_component and has_component of every id and kind as it was, and a
\* pending id stays active; the cleanup step makes every pending id
\* inactive, without any component, and returned by no query.
C2_DeferredDestroy ==
    [][/\ last'.op = "destroy_entity" =>
              \A e \in 1..MaxIds, k \in Kinds :
                  /\ get_component(e, k)' = get_component(e, k)
                  /\ has_component(e, k)' = has_component(e, k)
       /\ entities_to_destroy' \subseteq entities'
       /\ last'.op = "cleanup" =>
              \A e \in entities_to_destroy :
                  /\ e \notin entities'
                  /\ \A k \in Kinds :
                         get_component(e, k)' = None /\ ~has_component(e, k)'
                  /\ \A kinds \in KindLists \cup {<<>>} :
                         e \notin get_entities_with_components(kinds)'
      ]_vars

\* C2 witness: a cleanup has removed an entity that held components while
\* another entity keeps its own.
C2_Witness ==
    /\ last.op = "cleanup"
    /\ last.ids # {}
    /\ \E e \in entities : has_component(e, "Position")

(***************************************************************************)
(* Properties of the scheduler.                                            *)
(***************************************************************************)
\* the system types the frame has updated so far, in order
RECURSIVE UpdatedSystems(_)
UpdatedSystems(log) ==
    IF log = <<>> THEN <<>>
    ELSE IF Head(log).sys = "cleanup" THEN UpdatedSystems(Tail(log))
    ELSE <<Head(log).sys>> \o UpdatedSystems(Tail(log))

\* the number of cleanups the frame has performed so far
RECURSIVE CleanupCount(_)
CleanupCount(log) ==
    IF log = <<>> THEN 0
    ELSE (IF Head(log).sys = "cleanup" THEN 1 ELSE 0) + CleanupCount(Tail(log))

GameOrder == <<"InputSystem", "MovementSystem", "CollisionSystem", "ScoreSystem",
               "RenderSystem">>

\* C3: a frame updates every enabled registered system exactly once and no
\* disabled one, in ascending order of priority, after any sequence of
\* register, unregister, enable, disable and set_system_priority; the five
\* systems of the Game with their class priorities are listed as Input,
\* Movement, Collision, Score, Render whatever the order of registration.
C3_FrameOrder ==
    LET upd == UpdatedSystems(frame_log)
    IN /\ \A i \in 1..Len(upd), j \in 1..Len(upd) :
              i < j => upd[i] # upd[j] /\ priority[upd[i]] <= priority[upd[j]]
       /\ \A i \in 1..Len(upd) : upd[i] \in system_lookup /\ enabled[upd[i]]
       /\ last.op = "frame_end" =>
              {upd[i] : i \in 1..Len(upd)} = {t \in system_lookup : enabled[t]}
       /\ (system_lookup = SysTypes /\ \A t \in SysTypes : priority[t] = ClassPriority(t))
              => systems = GameOrder

\* C3 witness: a frame has ended in which all five systems were registered,
\* one with a changed priority and one disabled, and four were updated.
C3_Witness ==
    /\ last.op = "frame_end"
    /\ system_lookup = SysTypes
    /\ \E t \in SysTypes : priority[t] # ClassPriority(t) /\ enabled[t]
    /\ \E t \in SysTypes : ~enabled[t]
    /\ Len(UpdatedSystems(frame_log)) = 4

\* C4: a frame that returns normally cleans up exactly once, as its last
\* act and after every enabled system was updated (also when there is
\* none); while the loop runs nothing is cleaned up: no entity leaves the
\* store and pending entities stay pending.
C4_CleanupOnce ==
    [][/\ last'.op = "frame_end" =>
              /\ CleanupCount(frame_log) = 0
              /\ frame_log' = Append(frame_log, CleanupMark)
              /\ Len(frame_log) = Cardinality({t \in system_lookup : enabled[t]})
              /\ entities' = entities \ entities_to_destroy
              /\ entities_to_destroy' = {}
       /\ frame_pc' # 0 =>
              /\ CleanupCount(frame_log') = 0
              /\ entities' = entities
              /\ components' = components
              /\ entities_to_destroy \subseteq entities_to_destroy'
      ]_vars

\* C4 witness: a frame with two updated systems, one of which destroyed an
\* entity, has ended with the cleanup that removed it.
C4_Witness ==
    /\ last.op = "frame_end"
    /\ last.ids # {}
    /\ Len(frame_log) = 3
    /\ frame_log[3] = CleanupMark

\* C4 witness of the empty case: a frame without any enabled system has
\* ended with its cleanup.
C4_WitnessNoSystem ==
    /\ last.op = "frame_end"
    /\ system_lookup # {}
    /\ frame_log = <<CleanupMark>>

(***************************************************************************)
(* Properties of the boundary phase.                                       *)
(***************************************************************************)
Sign(n) == IF n > 0 THEN 1 ELSE IF n < 0 THEN -1 ELSE 0

\* the entities whose Collision component is of kind Ball
Balls ==
    {e \in entities : has_component(e, "Position") /\ has_component(e, "Collision")
                      /\ components[e]["Collision"].collision_type = "ball"}

BoundsOf(e) ==
    get_collision_bounds(components[e]["Collision"], components[e]["Position"].x,
                         components[e]["Position"].y)

C6_Original ==
    [][last'.op = "boundary" =>
           \A e \in Balls :
               LET b == BoundsOf(e)
                   h == components[e]["Collision"].height
               IN /\ b.top <= 0 => components'[e]["Position"].y = h \div 2
                  /\ (b.top > 0 /\ b.bottom >= Px(SCREEN_HEIGHT)) =>
                         components'[e]["Position"].y = Px(SCREEN_HEIGHT) - h \div 2
                  /\ (b.top <= 0 \/ b.bottom >= Px(SCREEN_HEIGHT)) =>
                         /\ BoundsOf(e)'.top >= 0
                         /\ BoundsOf(e)'.bottom <= Px(SCREEN_HEIGHT)
                         /\ has_component(e, "Velocity") =>
                                Sign(components'[e]["Velocity"].dy)
                                    = -Sign(components[e]["Velocity"].dy)
                  /\ (b.top > 0 /\ b.bottom < Px(SCREEN_HEIGHT)) =>
                         components'[e] = components[e]
      ]_vars

\* C6 amended: as stated, but the sign of dy is reversed when the ball's
\* bounce_factor is positive; with a bounce_factor of 0 dy becomes 0.
C6_BallBouncesVertically ==
    [][last'.op = "boundary" =>
           \A e \in Balls :
               LET b == BoundsOf(e)
                   h == components[e]["Collision"].height
                   f == components[e]["Collision"].bounce_factor
               IN /\ b.top <= 0 => components'[e]["Position"].y = h \div 2
                  /\ (b.top > 0 /\ b.bottom >= Px(SCREEN_HEIGHT)) =>
                         components'[e]["Position"].y = Px(SCREEN_HEIGHT) - h \div 2
                  /\ (b.top <= 0 \/ b.bottom >= Px(SCREEN_HEIGHT)) =>
                         /\ BoundsOf(e)'.top >= 0
                         /\ BoundsOf(e)'.bottom <= Px(SCREEN_HEIGHT)
                         /\ has_component(e, "Velocity") =>
                                Sign(components'[e]["Velocity"].dy)
                                    = IF f > 0 THEN -Sign(components[e]["Velocity"].dy)
                                      ELSE 0
                  /\ (b.top > 0 /\ b.bottom < Px(SCREEN_HEIGHT)) =>
                         components'[e] = components[e]
      ]_vars

\* C6 witness: a ball that was beyond the bottom edge moving down has been
\* put back with its bottom on the edge and now moves up.
C6_Witness ==
    /\ last.op = "boundary"
    /\ last.n = 1
    /\ \E e \in Balls :
           /\ BoundsOf(e).bottom = Px(SCREEN_HEIGHT)
           /\ has_component(e, "Velocity")
           /\ components[e]["Velocity"].dy < 0
           /\ components[e]["Collision"].bounce_factor = 11
           /\ get_speed(components[e]["Velocity"]) = components[e]["Velocity"].max_speed

(***************************************************************************)
(* Properties of the score state machine.                                  *)
(***************************************************************************)
ScoreEntities == {e \in entities : has_component(e, "Score")}

\* the score of player p in the Score component sc
ScoreOf(sc, p) == IF p = 1 THEN sc.player1_score ELSE sc.player2_score

\* C7 as stated: an add_score(player, n) made while the game is not over
\* that brings the player's score to winning_score sets game_over and
\* winner = player and returns true; a call after which both scores are below
\* winning_score leaves game_over false and winner none and returns false.
C7_Original ==
    [][\A e \in ScoreEntities :
           (last'.op = "add_score" /\ last'.player \in {1, 2}
            /\ ~components[e]["Score"].game_over) =>
               LET after == components'[e]["Score"]
               IN /\ ScoreOf(after, last'.player) = after.winning_score =>
                         /\ after.game_over
                         /\ after.winner = last'.player
                         /\ last'.ret
                  /\ (after.player1_score < after.winning_score
                      /\ after.player2_score < after.winning_score) =>
                         /\ ~after.game_over
                         /\ after.winner = NoPlayer
                         /\ ~last'.ret
      ]_vars

\* C7: the state the claim fails in: an add_score for player 2 has ended
\* the game with player 2 on winning_score, and the winner is player 1.
C7_WrongWinner ==
    /\ last.op = "add_score"
    /\ last.player = 2
    /\ last.ret
    /\ \E e \in ScoreEntities :
           /\ components[e]["Score"].player2_score = components[e]["Score"].winning_score
           /\ components[e]["Score"].winner = 1

\* C8: while game_over is true, no step other than a reset (add_score,
\* force_score, check_scoring, the update of the Score system, a change of
\* the configuration, the ball moving, time passing) changes a score, the
\* winner, last_scorer or the event history, and game_over stays true.
C8_GameOverTerminal ==
    [][\A e \in ScoreEntities :
           (components[e]["Score"].game_over /\ last'.op # "reset_game") =>
               LET before == components[e]["Score"]
                   after == components'[e]["Score"]
               IN /\ after.game_over
                  /\ after.player1_score = before.player1_score
                  /\ after.player2_score = before.player2_score
                  /\ after.winner = before.winner
                  /\ after.last_scorer = before.last_scorer
                  /\ after.score_events = before.score_events
      ]_vars

\* C8 witness: check_scoring has run with the game over, the cooldown elapsed
\* and the ball beyond a threshold, and has scored nothing.
C8_Witness ==
    /\ last.op = "check_scoring"
    /\ ~last.scored
    /\ components[score_system.score_manager_entity]["Score"].game_over
    /\ now - score_system.last_score_time >= Seconds(1)
    /\ components[score_system.ball_entity]["Position"].x > Px(SCREEN_WIDTH + 50)

\* the sum of both scores of the component table comps
TotalScore(comps) ==
    LET sc == comps[score_system.score_manager_entity]["Score"]
    IN sc.player1_score + sc.player2_score

\* C9: after check_scoring has scored at time t, while the ball stays beyond
\* its threshold and no reset happens, a check_scoring (alone or in the update
\* of the Score system) less than one second after t changes no score, and
\* one made a second or more after t, the game not being over, adds exactly
\* one point.
C9_Cooldown ==
    [][(last'.op \in {"check_scoring", "update"}) =>
           \A t \in scored_at :
               /\ now - t < Seconds(1) =>
                      ScoresIn(components') = ScoresIn(components)
               /\ (now - t >= Seconds(1)
                   /\ ~components[score_system.score_manager_entity]["Score"].game_over) =>
                      TotalScore(components') = TotalScore(components) + 1
      ]_vars

\* C9 witness: check_scoring has scored a second time for a ball that stayed
\* out, and since then time has passed and a further check_scoring within the
\* window of that second score has scored nothing.
C9_Witness ==
    /\ last.op = "check_scoring"
    /\ ~last.scored
    /\ \E t \in scored_at : now - t < Seconds(1) /\ t >= score_cooldown + Seconds(1)
    /\ TotalScore(components) >= 2
    /\ ~components[score_system.score_manager_entity]["Score"].game_over

\* C9 witness of the second half: check_scoring has scored again after the
\* window of its previous score had elapsed.
C9_WitnessAgain ==
    /\ last.op = "check_scoring"
    /\ last.again

C11_ListenersIsolated ==
    [][(last'.op \in {"force_score", "check_scoring", "update"}) =>
           LET m == score_system.score_manager_entity
               before == components[m]["Score"]
               after == components'[m]["Score"]
               ended == after.game_over /\ ~before.game_over
               s == Len(score_system.on_score_callbacks)
               g == IF ended THEN Len(score_system.on_game_over_callbacks) ELSE 0
               calls == last'.calls
           IN /\ ~last'.raised
              /\ (calls # <<>> \/ last'.raised) =>
                     /\ Len(calls) = s + g
                     /\ \A i \in 1..Len(calls) :
                            /\ calls[i].event = calls[1].event
                            /\ calls[i].event.scores = get_score_tuple(after)
                            /\ i <= s => calls[i].list = "score" /\ calls[i].index = i
                            /\ i > s => calls[i].list = "game_over" /\ calls[i].index = i - s
              /\ last'.scored =>
                     /\ calls # <<>>
                     /\ after.player1_score + after.player2_score
                            = before.player1_score + before.player2_score + 1
                     /\ score_system'.last_score_time = now
      ]_vars

\* C11 witness: check_scoring has ended the game; the first score listener
\* and the first game-over listener raise, and all four listeners were
\* invoked.
C11_Witness ==
    /\ last.op = "check_scoring"
    /\ last.scored
    /\ score_system.on_score_callbacks[1] = "raises"
    /\ score_system.on_game_over_callbacks[1] = "raises"
    /\ Len(last.calls) = 4
    /\ last.calls[4].event.game_over
    /\ score_system.last_score_time = now

\* C12: reset_game leaves both scores 0, game_over false, no winner, no
\* last scorer, an empty event history and the cooldown cleared, whatever
\* happened before; the check_scoring that follows it scores for a ball
\* beyond a threshold whenever the previous score was made; and with
\* winning_score = 3 and player 2 at 0, an add_score(1, 1) ends the game
\* exactly when it brings player 1 to 3, with winner 1.
C12_ResetRestores ==
    [][LET m == score_system.score_manager_entity
           before == components[m]["Score"]
           after == components'[m]["Score"]
       IN /\ last'.op = "reset_game" =>
                 /\ get_score_tuple(after) = <<0, 0>>
                 /\ ~after.game_over
                 /\ after.winner = NoPlayer
                 /\ after.last_scorer = NoPlayer
                 /\ after.score_events = <<>>
                 /\ score_system'.last_score_time = 0
          /\ (last.op = "reset_game" /\ last'.op = "check_scoring"
              /\ (components[score_system.ball_entity]["Position"].x < Px(-50)
                  \/ components[score_system.ball_entity]["Position"].x
                         > Px(SCREEN_WIDTH + 50))) =>
                 after.player1_score + after.player2_score = 1
          /\ (last'.op = "add_score" /\ last'.player = 1 /\ ~before.game_over
              /\ before.winning_score = 3 /\ before.player2_score = 0) =>
                 /\ after.player1_score = before.player1_score + 1
                 /\ after.game_over <=> after.player1_score = 3
                 /\ last'.ret <=> after.game_over
                 /\ after.game_over => after.winner = 1 /\ after.player2_score = 0
      ]_vars

\* C12 witness: reset_game has been called on a game that was over, after
\* a score made at the present time, and has restored the initial state.
C12_Witness ==
    /\ last.op = "reset_game"
    /\ last.was_over
    /\ now > score_cooldown
    /\ get_score_tuple(components[score_system.score_manager_entity]["Score"]) = <<0, 0>>
    /\ ~components[score_system.score_manager_entity]["Score"].game_over
    /\ score_system.last_score_time = 0

\* C12 witness of the round trip: the third add_score(1, 1) has ended the
\* game with scores (3, 0) and winner 1.
C12_WitnessRoundTrip ==
    /\ last.op = "add_score"
    /\ last.ret
    /\ LET sc == components[score_system.score_manager_entity]["Score"]
       IN /\ get_score_tuple(sc) = <<3, 0>>
          /\ sc.winner = 1
          /\ Len(sc.score_events) = 3
          /\ \A i \in 1..3 : sc.score_events[i].player = 1 /\ sc.score_events[i].points = 1

\* the components the pairwise phase of the step starts from: those the
\* boundary phase left when the step is a whole update
PairPhaseStart ==
    IF last'.op = "update"
    THEN BoundaryHandled(components, get_entities_with_components(<<"Position", "Collision">>))
    ELSE components

\* entity b is a Ball with Velocity and entity p a Paddle, their masks accept
\* each other's kind and their rectangles overlap
ReturnCase(comps, b, p) ==
    /\ {"Position", "Collision", "Velocity"} \subseteq DOMAIN comps[b]
    /\ {"Position", "Collision"} \subseteq DOMAIN comps[p]
    /\ comps[b]["Collision"].collision_type = "ball"
    /\ comps[p]["Collision"].collision_type = "paddle"
    /\ "paddle" \in comps[b]["Collision"].collision_mask
    /\ "ball" \in comps[p]["Collision"].collision_mask
    /\ Overlap(comps[b], comps[p])

\* the speed of v is at most limit, up to the rounding of the model: one
\* tenth of a pixel per second
SpeedWithin(v, limit) == get_speed(v) <= limit + 1

WithinMaxBallSpeed(v) == SpeedWithin(v, Px(MAX_BALL_SPEED))

\* C13 as stated: when the pairwise phase resolves a Ball with Velocity and a
\* Paddle that accept each other and overlap, the sign of the ball's dx is
\* reversed, the two rectangles no longer overlap and the ball's speed is at
\* most MAX_BALL_SPEED.
C13_Original ==
    [][\A b, p \in entities :
          (last'.op \in {"pairs", "update"} /\ ReturnCase(PairPhaseStart, b, p))
          => /\ Sign(components'[b]["Velocity"].dx)
                    = -Sign(PairPhaseStart[b]["Velocity"].dx)
             /\ ~Overlap(components'[b], components'[p])
             /\ WithinMaxBallSpeed(components'[b]["Velocity"])]_vars

\* C13: when the pairwise phase resolves a Ball with Velocity and a Paddle
\* that accept each other and overlap, the two rectangles no longer overlap,
\* the ball's speed is at most MAX_BALL_SPEED, and the sign of the ball's dx
\* is reversed if the ball's bounce_factor is positive; with a bounce_factor
\* of 0 the ball's dx and dy are 0.
C13_BallReturned ==
    [][\A b, p \in entities :
          (last'.op \in {"pairs", "update"} /\ ReturnCase(PairPhaseStart, b, p))
          => /\ PairPhaseStart[b]["Collision"].bounce_factor > 0
                    => Sign(components'[b]["Velocity"].dx)
                           = -Sign(PairPhaseStart[b]["Velocity"].dx)
             /\ PairPhaseStart[b]["Collision"].bounce_factor = 0
                    => /\ components'[b]["Velocity"].dx = 0
                       /\ components'[b]["Velocity"].dy = 0
             /\ ~Overlap(components'[b], components'[p])
             /\ WithinMaxBallSpeed(components'[b]["Velocity"])]_vars

\* a moving ball with a positive bounce_factor was returned by a paddle, and
\* came out at MAX_BALL_SPEED
C13_Witness ==
    /\ last.op = "pairs"
    /\ last.n = 1
    /\ \E b, p \in entities :
           /\ {"Position", "Collision", "Velocity"} \subseteq DOMAIN components[b]
           /\ components[b]["Collision"].collision_type = "ball"
           /\ components[b]["Collision"].bounce_factor > 0
           /\ components[p]["Collision"].collision_type = "paddle"
           /\ components[b]["Velocity"].dx > 0
           /\ components[b]["Velocity"].dy # 0
           /\ get_speed(components[b]["Velocity"]) = Px(MAX_BALL_SPEED)
           /\ components[b]["Position"].x
                  = SeparatedX(components[b]["Position"].x, components[p]["Position"].x,
                               components[p]["Collision"].width,
                               components[b]["Collision"].width)

\* each of the two entities accepts the kind of the other
MutualMasks(a, b) ==
    /\ b["Collision"].collision_type \in a["Collision"].collision_mask
    /\ a["Collision"].collision_type \in b["Collision"].collision_mask

\* C14: the pairwise phase changes the Position or the Velocity of an entity
\* of a pair only if each entity's mask holds the other's kind; when either
\* mask lacks the other's kind both entities are left as they were, even when
\* their rectangles overlap.
C14_MutualMasksOnly ==
    [][\A a, b \in entities :
          (/\ last'.op \in {"pairs", "update"}
           /\ a < b
           /\ ~MutualMasks(PairPhaseStart[a], PairPhaseStart[b]))
          => /\ components'[a] = PairPhaseStart[a]
             /\ components'[b] = PairPhaseStart[b]]_vars

\* a pairwise phase has run over two overlapping entities whose masks are not
\* mutual and which the resolution would have moved
C14_Witness ==
    /\ last.op = "pairs"
    /\ last.n = 1
    /\ ~MutualMasks(components[1], components[2])
    /\ Overlap(components[1], components[2])
    /\ ResolvedCollision(components[1], components[2])
           # [a |-> components[1], b |-> components[2]]

\* the entities other than Balls that have Position, Collision and Velocity
MovingNonBalls ==
    {e \in entities : /\ has_component(e, "Position") /\ has_component(e, "Collision")
                      /\ has_component(e, "Velocity")
                      /\ components[e]["Collision"].collision_type # "ball"}

\* C15 as stated: for a non-Ball entity with Velocity the boundary phase
\* repositions x just inside the left or right edge and reverses the sign of
\* dx, repositions y just inside the top or bottom edge and reverses the sign
\* of dy, both in one pass.
C15_Original ==
    [][\A e \in MovingNonBalls :
          last'.op = "boundary" =>
          LET col == components[e]["Collision"]
              v == components[e]["Velocity"]
              pos2 == components'[e]["Position"]
              v2 == components'[e]["Velocity"]
          IN /\ BoundsOf(e).left <= 0
                    => pos2.x = col.width \div 2 /\ Sign(v2.dx) = -Sign(v.dx)
             /\ BoundsOf(e).right >= Px(SCREEN_WIDTH)
                    => /\ pos2.x = Px(SCREEN_WIDTH) - col.width \div 2
                       /\ Sign(v2.dx) = -Sign(v.dx)
             /\ BoundsOf(e).top <= 0
                    => pos2.y = col.height \div 2 /\ Sign(v2.dy) = -Sign(v.dy)
             /\ BoundsOf(e).bottom >= Px(SCREEN_HEIGHT)
                    => /\ pos2.y = Px(SCREEN_HEIGHT) - col.height \div 2
                       /\ Sign(v2.dy) = -Sign(v.dy)]_vars

\* C15: for a non-Ball entity with Velocity the boundary phase repositions x
\* just inside the left or right edge and y just inside the top or bottom
\* edge, both in one pass; the sign of dx (of dy) is reversed at a left or
\* right (top or bottom) edge if bounce_factor is positive, and with a
\* bounce_factor of 0 any edge leaves the velocity (0, 0).
C15_NonBallBouncesAllEdges ==
    [][\A e \in MovingNonBalls :
          last'.op = "boundary" =>
          LET col == components[e]["Collision"]
              v == components[e]["Velocity"]
              pos2 == components'[e]["Position"]
              v2 == components'[e]["Velocity"]
              b == BoundsOf(e)
              flipped(d, d2) == IF col.bounce_factor > 0 THEN Sign(d2) = -Sign(d)
                                ELSE v2.dx = 0 /\ v2.dy = 0
          IN /\ b.left <= 0 => pos2.x = col.width \div 2 /\ flipped(v.dx, v2.dx)
             /\ b.right >= Px(SCREEN_WIDTH)
                    => /\ pos2.x = Px(SCREEN_WIDTH) - col.width \div 2
                       /\ flipped(v.dx, v2.dx)
             /\ b.top <= 0 => pos2.y = col.height \div 2 /\ flipped(v.dy, v2.dy)
             /\ b.bottom >= Px(SCREEN_HEIGHT)
                    => /\ pos2.y = Px(SCREEN_HEIGHT) - col.height \div 2
                       /\ flipped(v.dy, v2.dy)]_vars

\* a non-Ball entity with a positive bounce_factor has been bounced out of the
\* top left corner: it sits just inside both edges and moves right and down
C15_Witness ==
    /\ last.op = "boundary"
    /\ last.n = 1
    /\ \E e \in MovingNonBalls :
           /\ components[e]["Collision"].bounce_factor > 0
           /\ components[e]["Position"].x = components[e]["Collision"].width \div 2
           /\ components[e]["Position"].y = components[e]["Collision"].height \div 2
           /\ components[e]["Velocity"].dx > 0
           /\ components[e]["Velocity"].dy > 0

\* the Paddles with Position and Collision that are no taller than the screen
Paddles ==
    {e \in entities : /\ has_component(e, "Position") /\ has_component(e, "Collision")
                      /\ components[e]["Collision"].collision_type = "paddle"
                      /\ components[e]["Collision"].height <= Px(SCREEN_HEIGHT)}

\* C16 as stated: after every update of the CollisionSystem every Paddle no
\* taller than the screen lies vertically inside the screen, with or without
\* a Velocity and whatever it overlaps.
C16_Original ==
    last.op = "update" =>
        \A e \in Paddles : BoundsOf(e).top >= 0 /\ BoundsOf(e).bottom <= Px(SCREEN_HEIGHT)

\* an update has left a Paddle with its top bound above the screen
C16_PaddlePushedOut ==
    /\ last.op = "update"
    /\ last.n = 1
    /\ \E e \in Paddles : BoundsOf(e).top < 0

\* the velocity the operation of the step yields before it is limited
Unclamped ==
    LET v == components[1]["Velocity"]
        a == last'.args
    IN IF last'.op = "set_velocity" THEN [v EXCEPT !.dx = a[1], !.dy = a[2]]
       ELSE IF last'.op = "add_velocity" THEN [v EXCEPT !.dx = @ + a[1], !.dy = @ + a[2]]
       ELSE [v EXCEPT !.dx = Mul(@, a[1]), !.dy = Mul(@, a[1])]

Abs(n) == IF n < 0 THEN -n ELSE n

\* v points the way raw does, up to the rounding of v's components: the
\* cross product is within half a unit per component and the dot product is
\* not negative
SameDirection(raw, v) ==
    /\ 2 * Abs(raw.dx * v.dy - raw.dy * v.dx) <= Abs(raw.dx) + Abs(raw.dy)
    /\ raw.dx * v.dx + raw.dy * v.dy >= 0
    /\ (raw.dx # 0 \/ raw.dy # 0) => (v.dx # 0 \/ v.dy # 0)

\* C17: after set_velocity, add_velocity or scale_velocity on a Velocity with
\* max_speed > 0 the speed is at most max_speed and the direction of the
\* unclamped result is kept; with max_speed = 0 the result is the unclamped
\* one.
C17_SpeedLimited ==
    [][last'.op \in {"set_velocity", "add_velocity", "scale_velocity"} =>
          LET v2 == components'[1]["Velocity"]
          IN /\ v2.max_speed = components[1]["Velocity"].max_speed
             /\ v2.max_speed > 0
                    => SpeedWithin(v2, v2.max_speed) /\ SameDirection(Unclamped, v2)
             /\ v2.max_speed = 0 => v2 = Unclamped]_vars

\* set_velocity(600, 300) has just been limited: the velocity points right
\* and down and its speed is max_speed
C17_Witness ==
    /\ last.op = "set_velocity"
    /\ last.args = <<Px(600), Px(300)>>
    /\ LET v == components[1]["Velocity"]
       IN /\ v.max_speed > 0
          /\ v.dx > 0 /\ v.dy > 0
          /\ get_speed(v) = v.max_speed

\* C18: add_component on an id that is not active (never created, or removed
\* by cleanup) fails with an error and leaves the whole store unchanged; the
\* id has no entry in the component table and is in no reverse index.
C18_AddToInactiveFails ==
    [][(/\ last'.op \in {"add_component", "add_component_error"}
        /\ last'.args[1] \notin entities)
       => /\ last'.op = "add_component_error"
          /\ UNCHANGED storeVars
          /\ last'.args[1] \notin DOMAIN components'
          /\ \A k \in Kinds : last'.args[1] \notin component_to_entities'[k]]_vars

\* add_component has just failed on an id that cleanup removed, while another
\* entity holds a component
C18_Witness ==
    /\ last.op = "add_component_error"
    /\ last.args[1] < next_entity_id
    /\ last.args[1] \notin entities
    /\ \E e \in entities : has_component(e, "Position")

\* C19: an entity holds at most one component of each kind: add_component of
\* a kind the entity already holds replaces the component, get_component
\* then returns the new one, the entity holds the same kinds as before, and
\* queries for that kind return the same entities, the entity among them
\* (unless it is pending destruction, when no query returns it).
C19_OnePerKind ==
    [][\A e \in 1..MaxIds, k \in StoreKinds :
          (/\ last'.op = "add_component"
           /\ last'.old # None
           /\ last'.args[1] = e
           /\ last'.args[2] = k)
          => /\ get_component(e, k)' = last'.args[3]
             /\ DOMAIN components'[e] = DOMAIN components[e]
             /\ \A f \in entities \ {e} : CompsOf(components', f) = CompsOf(components, f)
             /\ component_to_entities' = component_to_entities
             /\ get_entities_with_components(<<k>>)' = get_entities_with_components(<<k>>)
             /\ e \in get_entities_with_components(<<k>>)' <=> e \notin entities_to_destroy
             /\ Cardinality({f \in get_entities_with_components(<<k>>)' : f = e}) <= 1]_vars

\* the Position p1 of an entity that also holds a Velocity has just been
\* replaced by p2, and a query for Position returns the entity
C19_Witness ==
    /\ last.op = "add_component"
    /\ last.old = "p1"
    /\ last.args = <<1, "Position", "p2">>
    /\ get_component(1, "Position") = "p2"
    /\ has_component(1, "Velocity")
    /\ 1 \in get_entities_with_components(<<"Position">>)

\* C20 as stated: a query with no kinds returns exactly the active entities
\* that are not pending destruction, the set get_all_entities returns.
C20_Original == get_entities_with_components(<<>>) = get_all_entities

\* an entity is pending destruction, and the query with no kinds returns it
\* while get_all_entities and a query for a kind it holds do not
C20_PendingReturned ==
    \E e \in entities_to_destroy :
        /\ e \in get_entities_with_components(<<>>)
        /\ e \notin get_all_entities
        /\ has_component(e, "Position")
        /\ e \notin get_entities_with_components(<<"Position">>)

\* C21 as stated: whatever create, destroy, cleanup and clear_all steps came
\* before, create returns an id that no earlier create returned, and never
\* the id of an entity that is active or pending destruction.
C21_Original ==
    [][last'.op = "create_entity" =>
          /\ next_entity_id \notin last.made
          /\ next_entity_id \notin entities
          /\ next_entity_id \notin entities_to_destroy]_vars

\* create has just returned, after a clear_all, the id 1 that an earlier
\* create returned
C21_IdReturnedAgain ==
    /\ last.op = "create_entity"
    /\ next_entity_id = 2
    /\ entities = {1}
    /\ 2 \in last.made

\* no system type is listed twice
NoDuplicates(xs) == \A i, j \in 1..Len(xs) : i # j => xs[i] # xs[j]

\* C22: register_system of a type that is already registered, whether the
\* instance is the registered one or another with other attributes, leaves
\* the system list, its order, the lookup and the registered instance's
\* attributes unchanged; no type is listed twice, and none is updated twice
\* in one frame.
C22_RegisterIdempotent ==
    [][/\ (last'.op = "register_system" /\ last'.args[1] \in system_lookup)
          => UNCHANGED <<systems, system_lookup, priority, enabled>>
       /\ NoDuplicates(systems')
       /\ NoDuplicates(UpdatedSystems(frame_log'))]_vars

\* an instance of a registered type has just been offered again, enabled
\* where the registered one is disabled, while two systems are registered
C22_Witness ==
    /\ last.op = "register_system"
    /\ Len(systems) = 2
    /\ last.args[1] = systems[1]
    /\ last.args[2] = TRUE
    /\ ~enabled[systems[1]]

\* C23: when the update of an enabled system raises, the frame is left at
\* once (the error is the caller's): the raising system is the last one the
\* log of the frame shows, no system behind it in the list is updated, and
\* nothing more happens in that frame, not even its cleanup.
C23_RaisePropagates ==
    [][/\ last'.op = "frame_raised" =>
              /\ enabled[systems[frame_pc]]
              /\ frame_pc' = 0
              /\ UpdatedSystems(frame_log')
                     = Append(UpdatedSystems(frame_log), systems[frame_pc])
              /\ \A j \in (frame_pc + 1)..Len(systems) :
                     \A i \in 1..Len(frame_log') : frame_log'[i].sys # systems[j]
              /\ CleanupCount(frame_log') = 0
              /\ UNCHANGED <<entities, components, component_to_entities>>
       /\ last.op = "frame_raised" =>
              last'.op \notin {"update_system", "skip_system", "frame_raised", "frame_end"}
      ]_vars

\* the first of two enabled systems has just raised: the log of the frame
\* shows it alone
C23_Witness ==
    /\ last.op = "frame_raised"
    /\ Len(systems) >= 2
    /\ enabled[systems[2]]
    /\ Len(frame_log) = 1
    /\ frame_log[1].sys = systems[1]
    /\ frame_pc = 0

Min(a, b) == IF a < b THEN a ELSE b

\* C24: the event list never holds more than 10 events. A successful
\* add_score appends its event behind the others and, when there were 10
\* already, evicts the oldest; so after n successful calls of one point the
\* list holds the most recent min(n, 10) events in the order they happened
\* (the i-th of them is the event that brought the total to n - length + i).
\* A call that scores nothing leaves the list as it is.
C24_HistoryBounded ==
    [][last'.op = "add_score" =>
          LET sc == components[1]["Score"]
              sc2 == components'[1]["Score"]
              evs == sc.score_events
              evs2 == sc2.score_events
              n2 == sc2.player1_score + sc2.player2_score
              event == [player |-> last'.player, points |-> 1,
                        scores_after |-> get_score_tuple(sc2)]
          IN /\ Len(evs2) <= 10
             /\ Len(evs2) = Min(n2, 10)
             /\ \A i \in 1..Len(evs2) :
                    evs2[i].scores_after[1] + evs2[i].scores_after[2]
                        = n2 - Len(evs2) + i
             /\ get_score_tuple(sc2) # get_score_tuple(sc)
                    => evs2 = Append(IF Len(evs) = 10 THEN Tail(evs) ELSE evs, event)
             /\ get_score_tuple(sc2) = get_score_tuple(sc) => evs2 = evs]_vars

\* twelve points were scored: the list holds ten events, the oldest of them
\* the third point, the newest the twelfth
C24_Witness ==
    /\ last.op = "add_score"
    /\ PointsScored(1) = 12
    /\ LET evs == components[1]["Score"].score_events
       IN /\ Len(evs) = 10
          /\ evs[1].scores_after[1] + evs[1].scores_after[2] = 3
          /\ evs[10].scores_after = get_score_tuple(components[1]["Score"])

\* C25: a MovementSystem update with step dt adds dx * dt to x and dy * dt
\* to y of every listed entity that holds Position and Velocity, each axis
\* on its own and without any clamping; it changes no Velocity, no entity
\* that lacks one of the two components and no entity that is not listed.
C25_MovementStep ==
    [][last'.op = "movement" =>
          \A e \in entities :
              LET cs == components[e]
                  cs2 == components'[e]
                  dt == last'.args[1]
              IN IF e \in last'.ids /\ {"Position", "Velocity"} \subseteq DOMAIN cs
                 THEN /\ cs2["Position"].x
                             = cs["Position"].x + RoundDiv(cs["Velocity"].dx * dt, 1000)
                      /\ cs2["Position"].y
                             = cs["Position"].y + RoundDiv(cs["Velocity"].dy * dt, 1000)
                      /\ cs2["Velocity"] = cs["Velocity"]
                      /\ DOMAIN cs2 = DOMAIN cs
                 ELSE cs2 = cs]_vars

\* an update of one second has carried entity 1 off the screen on both axes
\* while entity 2, listed too, stayed where it was
C25_Witness ==
    /\ last.op = "movement"
    /\ last.n = 1
    /\ last.args = <<1000>>
    /\ {1, 2} \subseteq last.ids
    /\ components[1]["Position"].x < 0
    /\ components[1]["Position"].y > Px(SCREEN_HEIGHT)
    /\ components[2]["Position"].y = Px(300)

\* the scores of the two players on the score manager of the game
GameScores == get_score_tuple(components[score_system.score_manager_entity]["Score"])

\* the side the ball the ScoreSystem tracks has left, if any
GameBallOut == BallOut(components, score_system.ball_entity)

GameBallX == components[score_system.ball_entity]["Position"].x

\* a frame of the running game with the ball out on one side, moving on:
\* either the same ball is further out on that side, still moving away,
\* with no score changed, or the other side's player has one point more and
\* that ball is gone, another one in its place (so the exit counts once)
ExitStep(side, player) ==
    GameBallOut = side =>
        \/ /\ score_system'.ball_entity = score_system.ball_entity
           /\ GameBallOut' = side
           /\ IF side = "left" THEN GameBallX' < GameBallX ELSE GameBallX' > GameBallX
           /\ GameScores' = GameScores
        \/ /\ score_system'.ball_entity # score_system.ball_entity
           /\ score_system.ball_entity \notin entities'
           /\ GameScores'[player] = GameScores[player] + 1
           /\ GameScores'[3 - player] = GameScores[3 - player]

\* the last frame began with the tracked ball out on one side and scored
\* for the player of the other side
ExitScored ==
    /\ last.op = "frame"
    /\ Len(last.calls) > 0
    /\ \/ last.out = "left" /\ last.calls[1].event.player = 2
       \/ last.out = "right" /\ last.calls[1].event.player = 1

TrackedMissing ==
    \/ ~Has(components, entities, score_system.ball_entity, "Position")
    \/ ~Has(components, entities, score_system.score_manager_entity, "Score")

\* C27: when the ball or the score manager the ScoreSystem tracks has been
\* destroyed and cleaned up, or lacks its Position resp. Score component,
\* an update of the ScoreSystem changes no score, calls no listener, does
\* not start the cooldown and raises nothing
C27_MissingTrackedIgnored ==
    [][(last'.op = "update" /\ TrackedMissing) =>
          /\ ScoresIn(components') = ScoresIn(components)
          /\ last'.calls = <<>>
          /\ score_system'.last_score_time = score_system.last_score_time
          /\ ~last'.raised]_vars

\* an update has just run with the ball cleaned up, past the cooldown
C27_Witness ==
    /\ last.op = "update"
    /\ score_system.ball_entity \notin entities
    /\ score_system.score_manager_entity \in entities
    /\ ~InCooldown(now, score_system.last_score_time)


\* C28: the end-of-frame cleanup is idempotent. A cleanup leaves nothing
\* pending, only destroy_entity makes something pending again, and a
\* cleanup called with nothing pending (a second call with no destroy in
\* between) leaves the active entities, the component tables and the
\* reverse indices as they are
C28_CleanupIdempotent ==
    [][/\ last'.op = "cleanup" => entities_to_destroy' = {}
       /\ (entities_to_destroy = {} /\ last'.op # "destroy_entity")
              => entities_to_destroy' = {}
       /\ (last'.op = "cleanup" /\ entities_to_destroy = {})
              => /\ entities' = entities
                 /\ components' = components
                 /\ component_to_entities' = component_to_entities]_vars

\* a cleanup has just run with nothing pending on a store that holds
\* components and from which an earlier cleanup removed an entity
C28_Witness ==
    /\ last.op = "cleanup"
    /\ last.pending = {}
    /\ \E e \in entities : CompsOf(components, e) # NoComponents
    /\ \E e \in 1..(next_entity_id - 1) : e \notin entities


\* whether entity e holds every kind system type t requires
Satisfies(e, t) ==
    \A i \in 1..Len(get_required_components(t)) :
        get_required_components(t)[i] \in DOMAIN CompsOf(components, e)

\* the step is an iteration of the frame's loop that updates a system
IterationStep ==
    /\ frame_pc \in 1..Len(systems)
    /\ Len(frame_log') = Len(frame_log) + 1

\* C29: within a frame, the list handed to a system holds no entity that
\* was marked for destruction by an earlier update and holds every entity
\* that is active, not marked, and has the kinds the system requires, those
\* created with their components by an earlier update of the frame
\* included; until the frame ends, marks are kept and entities and their
\* components stay
C29_FrameSeesChanges ==
    [][/\ IterationStep =>
              LET entry == frame_log'[Len(frame_log')]
              IN /\ entry.sys = systems[frame_pc]
                 /\ entry.ents \cap entities_to_destroy = {}
                 /\ \A e \in entities \ entities_to_destroy :
                        Satisfies(e, entry.sys) => e \in entry.ents
       /\ (frame_pc # 0 /\ frame_pc' # 0) =>
              /\ entities_to_destroy \subseteq entities_to_destroy'
              /\ entities \subseteq entities'
              /\ \A e \in entities : CompsOf(components', e) = CompsOf(components, e)]_vars

\* in a running frame, the last update was not handed entity 1, which an
\* earlier update of the frame was handed and marked for destruction, and
\* was handed an entity that did not exist yet when an earlier system of
\* the frame, whose required kinds it holds, was updated
C29_Witness ==
    /\ frame_pc > 1
    /\ Len(frame_log) >= 3
    /\ \E i \in 1..(Len(frame_log) - 1) :
           /\ 1 \in frame_log[i].ents
           /\ 1 \in entities_to_destroy
           /\ Satisfies(1, frame_log[Len(frame_log)].sys)
           /\ 1 \notin frame_log[Len(frame_log)].ents
    /\ \E e \in entities \ {1} :
           /\ e \in frame_log[Len(frame_log)].ents
           /\ \E i \in 1..(Len(frame_log) - 1) :
                  Satisfies(e, frame_log[i].sys) /\ e \notin frame_log[i].ents


\* the entities the boundary phase is handed that have no Velocity
Velocityless ==
    {e \in get_entities_with_components(<<"Position", "Collision">>) :
        "Velocity" \notin DOMAIN components[e]}

\* C30 as stated: the boundary phase leaves an entity with Position and
\* Collision but no Velocity as it is
C30_Original ==
    [][last'.op = "boundary" =>
          \A e \in Velocityless : components'[e] = components[e]]_vars

\* C30, amended: the boundary phase acts on every entity with Position and
\* Collision. One without Velocity gets no Velocity and keeps its
\* Collision; where its box touches or crosses an edge the phase handles
\* for its kind (top and bottom for a ball, all four otherwise) its
\* Position is set to the nearest place inside the screen, and is kept
\* otherwise
C30_VelocitylessRepositioned ==
    [][last'.op = "boundary" =>
          \A e \in Velocityless :
              LET col == components[e]["Collision"]
                  pos == components[e]["Position"]
                  b == get_collision_bounds(col, pos.x, pos.y)
                  sides == col.collision_type # "ball"
              IN /\ DOMAIN components'[e] = DOMAIN components[e]
                 /\ components'[e]["Collision"] = col
                 /\ components'[e]["Position"].x =
                        IF sides /\ b.left <= 0 THEN col.width \div 2
                        ELSE IF sides /\ b.right >= Px(SCREEN_WIDTH)
                        THEN Px(SCREEN_WIDTH) - col.width \div 2
                        ELSE pos.x
                 /\ components'[e]["Position"].y =
                        IF b.top <= 0 THEN col.height \div 2
                        ELSE IF b.bottom >= Px(SCREEN_HEIGHT)
                        THEN Px(SCREEN_HEIGHT) - col.height \div 2
                        ELSE pos.y]_vars

\* the boundary phase has just moved a wall that has no Velocity
C30_WallMoved ==
    /\ last.op = "boundary"
    /\ 1 \in last.moved
    /\ "Velocity" \notin DOMAIN components[1]
    /\ components[1]["Collision"].collision_type = "wall"

\* the balls with a Velocity whose box is at or beyond the top or bottom edge
BouncingBalls ==
    {e \in Balls : /\ has_component(e, "Velocity")
                   /\ \/ BoundsOf(e).top <= 0
                      \/ BoundsOf(e).bottom >= Px(SCREEN_HEIGHT)}

\* C31 as stated: a top or bottom bounce of a Ball leaves its x coordinate
\* and its horizontal velocity dx as they were, whatever the bounce_factor
\* and max_speed.
C31_Original ==
    [][last'.op = "boundary" =>
           \A e \in BouncingBalls :
               /\ components'[e]["Position"].x = components[e]["Position"].x
               /\ components'[e]["Velocity"].dx = components[e]["Velocity"].dx
      ]_vars

\* C31 amended: a top or bottom bounce of a Ball leaves its x coordinate as
\* it was and scales dx by the bounce_factor: dx keeps its sign or becomes
\* 0, is never larger than dx times the factor, is dx times the factor
\* when no max_speed is set, and is unchanged when the factor is 1.
C31_BounceScalesHorizontal ==
    [][last'.op = "boundary" =>
           \A e \in BouncingBalls :
               LET v == components[e]["Velocity"]
                   f == components[e]["Collision"].bounce_factor
                   after == components'[e]["Velocity"].dx
               IN /\ components'[e]["Position"].x = components[e]["Position"].x
                  /\ Sign(after) \in {0, Sign(Mul(v.dx, f))}
                  /\ Abs(after) <= Abs(Mul(v.dx, f))
                  /\ v.max_speed = 0 => after = Mul(v.dx, f)
                  /\ f = 10 => after = v.dx
      ]_vars

\* C31 witness: a ball with bounce_factor 0.5 that was beyond the top edge
\* with dx = 100 has been put back on the edge and now has dx = 50.
C31_Witness ==
    /\ last.op = "boundary"
    /\ last.n = 1
    /\ \E e \in Balls :
           /\ e \in last.moved
           /\ BoundsOf(e).top = 0
           /\ components[e]["Collision"].bounce_factor = 5
           /\ has_component(e, "Velocity")
           /\ components[e]["Velocity"].max_speed = 0
           /\ components[e]["Velocity"].dx = Px(50)

\* C32 as stated: when the pairwise phase resolves a Ball with Velocity and
\* a Paddle, a ball that was moving right ends to the left of the paddle
\* and one that was moving left ends to the right of it.
C32_Original ==
    [][\A b, p \in entities :
          (last'.op = "pairs" /\ ReturnCase(components, b, p))
          => /\ components[b]["Velocity"].dx > 0 =>
                    components'[b]["Position"].x < components'[p]["Position"].x
             /\ components[b]["Velocity"].dx < 0 =>
                    components'[b]["Position"].x > components'[p]["Position"].x]_vars

\* a ball that was moving right has been put to the right of the paddle that
\* returned it, and now moves left, towards the paddle
C32_BallPlacedBehind ==
    /\ last.op = "pairs"
    /\ last.n = 1
    /\ \E b, p \in entities :
           /\ {"Position", "Collision", "Velocity"} \subseteq DOMAIN components[b]
           /\ components[b]["Collision"].collision_type = "ball"
           /\ components[p]["Collision"].collision_type = "paddle"
           /\ components[b]["Position"].x =
                  components[p]["Position"].x
                  + (components[p]["Collision"].width
                     + components[b]["Collision"].width) \div 2 + Px(1)
           /\ components[b]["Velocity"].dx < 0

\* entities a and b, a before b in the list, have Position and Collision,
\* accept each other's kind, overlap, are not a Ball and a Paddle, and their
\* centres differ
FallbackCase(comps, a, b) ==
    /\ a < b
    /\ {"Position", "Collision"} \subseteq DOMAIN comps[a]
    /\ {"Position", "Collision"} \subseteq DOMAIN comps[b]
    /\ MutualMasks(comps[a], comps[b])
    /\ Overlap(comps[a], comps[b])
    /\ {comps[a]["Collision"].collision_type, comps[b]["Collision"].collision_type}
           # {"ball", "paddle"}
    /\ comps[a]["Position"] # comps[b]["Position"]

\* C33: in the fallback for two overlapping solid entities only the first
\* entity is moved, to a centre distance of half the combined widths plus 1
\* (up to the rounding of the model, one tenth of a pixel) on the line
\* between the centres and on the same side; the second entity and both
\* velocities are as they were, and a pair with a non-solid entity is left
\* as it was.
C33_FirstSolidSeparated ==
    [][\A a, b \in entities :
          (last'.op = "pairs" /\ FallbackCase(components, a, b))
          => IF components[a]["Collision"].solid /\ components[b]["Collision"].solid
             THEN LET dx == components[a]["Position"].x - components[b]["Position"].x
                      dy == components[a]["Position"].y - components[b]["Position"].y
                      ax == components'[a]["Position"].x - components[b]["Position"].x
                      ay == components'[a]["Position"].y - components[b]["Position"].y
                      sep == (components[a]["Collision"].width
                              + components[b]["Collision"].width) \div 2 + Px(1)
                  IN /\ components'[b] = components[b]
                     /\ components'[a] =
                            [components[a] EXCEPT !["Position"] = components'[a]["Position"]]
                     /\ Abs(Sqrt(ax * ax + ay * ay) - sep) <= 1
                     /\ Sign(ax) \in {0, Sign(dx)}
                     /\ Sign(ay) \in {0, Sign(dy)}
                     /\ 2 * Abs(ax * dy - ay * dx) <= Abs(dx) + Abs(dy)
             ELSE /\ components'[a] = components[a]
                  /\ components'[b] = components[b]]_vars

\* a pairwise phase has moved the first of two solid entities, one of them
\* with a Velocity, away from the second
C33_Witness ==
    /\ last.op = "pairs"
    /\ last.n = 1
    /\ MutualMasks(components[1], components[2])
    /\ components[1]["Collision"].solid
    /\ components[2]["Collision"].solid
    /\ "Velocity" \in DOMAIN components[1]
    /\ components[1]["Position"].x # Px(50)
    /\ components[2]["Position"].x = Px(57)

\* C34 as stated: whenever add_score(player, n) returns true, the winner is
\* the player whose score the call incremented.
C34_Original ==
    [][\A e \in ScoreEntities :
           (last'.op = "add_score" /\ last'.ret) =>
               components'[e]["Score"].winner = last'.player]_vars

\* an add_score has returned true and ended the game, and the winner is not
\* the player it incremented, who is the last scorer
C34_WinnerNotScorer ==
    /\ last.op = "add_score"
    /\ last.ret
    /\ \E e \in ScoreEntities :
           LET sc == components[e]["Score"]
           IN /\ sc.game_over
              /\ sc.last_scorer = last.player
              /\ sc.winner \in {1, 2} \ {last.player}

\* the calls of the step to the listeners of one list
CallsTo(calls, list) == {i \in 1..Len(calls) : calls[i].list = list}

\* C35 as stated: a force_score or check_scoring that leaves both scores as
\* they were calls no score listener, and one that increments a score calls
\* each score listener exactly once, with the scores after the increment.
C35_Original ==
    [][last'.op \in {"force_score", "check_scoring"} =>
           IF ScoresIn(components') = ScoresIn(components)
           THEN CallsTo(last'.calls, "score") = {}
           ELSE \A n \in 1..Len(score_system.on_score_callbacks) :
                    \E i \in CallsTo(last'.calls, "score") :
                        /\ last'.calls[i].index = n
                        /\ \E e \in ScoreEntities :
                               last'.calls[i].event.scores
                                   = get_score_tuple(components'[e]["Score"])
                        /\ \A j \in CallsTo(last'.calls, "score") :
                               last'.calls[j].index = n => j = i
      ]_vars

\* a force_score made after the game was over has called a score listener,
\* with an event that reports no game over
C35_ListenerCalledWithoutChange ==
    /\ last.op = "force_score"
    /\ ~last.ret
    /\ \E e \in ScoreEntities : components[e]["Score"].game_over
    /\ \E i \in CallsTo(last.calls, "score") :
           /\ ~last.calls[i].event.game_over
           /\ last.calls[i].event.player \in {1, 2}

\* the step switches game_over of a Score component from false to true
GameEnds ==
    \E e \in ScoreEntities :
        ~components[e]["Score"].game_over /\ components'[e]["Score"].game_over

\* C36: game-over listeners are called only in a scoring call of the Score
\* system that switches game_over from false to true (so at most once until
\* a reset clears game_over), each of them once, after every score listener
\* was called once with the same event; and an event names a winner only
\* when it is that game-ending event.
C36_GameOverNotifiedOnce ==
    [][LET calls == last'.calls
           over == CallsTo(calls, "game_over")
           score == CallsTo(calls, "score")
       IN /\ over # {} =>
                 /\ GameEnds
                 /\ last'.op \in {"force_score", "check_scoring", "update"}
                 /\ \A i \in over, j \in score : j < i
                 /\ \A i \in over, j \in score : calls[j].event = calls[i].event
                 /\ \A n \in 1..Len(score_system.on_score_callbacks) :
                        Cardinality({j \in score : calls[j].index = n}) = 1
                 /\ \A n \in 1..Len(score_system.on_game_over_callbacks) :
                        Cardinality({i \in over : calls[i].index = n}) = 1
          /\ (GameEnds /\ last'.op \in {"force_score", "check_scoring", "update"})
                 => over # {}
          /\ \A i \in 1..Len(calls) :
                 IF GameEnds
                 THEN /\ calls[i].event.game_over
                      /\ \E e \in ScoreEntities :
                             calls[i].event.winner = components'[e]["Score"].winner
                 ELSE /\ ~calls[i].event.game_over
                      /\ calls[i].event.winner = NoPlayer
      ]_vars

\* a check of the scoring conditions has ended the game: both score
\* listeners, then both game-over listeners, were called with the event
\* that names the winner
C36_Witness ==
    /\ last.op \in {"check_scoring", "update"}
    /\ \E e \in ScoreEntities : components[e]["Score"].game_over
    /\ Len(last.calls) = 4
    /\ CallsTo(last.calls, "score") = {1, 2}
    /\ CallsTo(last.calls, "game_over") = {3, 4}
    /\ last.calls[4].event.winner \in {1, 2}

\* C37: the reverse index agrees with the component tables: an id is in the
\* index of a kind exactly if it is an active entity, pending or not, whose
\* table holds a component of the kind; an id that is not active is in no
\* index, and every pending id is active.
C37_IndexAgrees ==
    /\ \A k \in Kinds :
           component_to_entities[k] =
               {e \in entities : k \in DOMAIN CompsOf(components, e)}
    /\ \A k \in Kinds : component_to_entities[k] \subseteq entities
    /\ entities_to_destroy \subseteq entities

\* a cleanup has removed an entity that held components while another
\* entity still holds a component and is indexed for it
C37_Witness ==
    /\ last.op = "cleanup"
    /\ last.ids # {}
    /\ \A e \in last.ids : e \notin entities
    /\ \E e \in entities, k \in Kinds : e \in component_to_entities[k]

\* the step takes an entity or a stored component away
RemovalStep ==
    \/ ~(entities \subseteq entities')
    \/ \E e \in entities : CompsOf(components', e) # CompsOf(components, e)

\* C38: an update that raises ends the frame without the cleanup: the
\* entities, their components and the pending set are as they were and no
\* frame is in progress. Entities and components are removed only by the
\* cleanup that follows the loop of a frame, never during an update; until
\* then a pending entity stays pending, keeps its components and is in no
\* list handed to a system, also across an aborted frame and the start of
\* the next one; and that cleanup removes exactly the pending entities.
C38_AbortedFrameKeepsPending ==
    [][/\ last'.op = "frame_raised" =>
              /\ frame_pc' = 0
              /\ frame_log'[Len(frame_log')] # CleanupMark
              /\ entities' = entities
              /\ components' = components
              /\ entities_to_destroy' = entities_to_destroy
       /\ RemovalStep =>
              /\ last'.op = "frame_end"
              /\ frame_pc = Len(systems) + 1
       /\ last'.op # "frame_end" =>
              /\ entities_to_destroy \subseteq entities_to_destroy'
              /\ entities_to_destroy \subseteq entities'
              /\ \A e \in entities_to_destroy :
                     CompsOf(components', e) = CompsOf(components, e)
       /\ IterationStep =>
              frame_log'[Len(frame_log')].ents \cap entities_to_destroy = {}
       /\ last'.op = "frame_end" =>
              /\ entities' = entities \ entities_to_destroy
              /\ entities_to_destroy' = {}
              /\ \A e \in entities_to_destroy : e \notin DOMAIN components'
      ]_vars

\* a frame has begun while the ball, marked for destruction in the frame
\* that a raising update aborted, is still pending with its components
C38_Witness ==
    /\ last.op = "frame_begin"
    /\ frame_pc = 1
    /\ 1 \in entities_to_destroy
    /\ 1 \in entities
    /\ "Position" \in DOMAIN CompsOf(components, 1)
    /\ 1 \notin get_entities_with_components(<<"Position", "Velocity">>)

\* the entities of kind Ball that are active and not pending destruction
LiveBalls ==
    {e \in entities \ entities_to_destroy :
        /\ has_component(e, "Collision")
        /\ components[e]["Collision"].collision_type = "ball"}

GameScore == components[score_system.score_manager_entity]["Score"]

====
